---- MODULE Spec2Model ----
(***************************************************************************)
(* A model of the 2D rendering engine: shape tessellation caches           *)
(* (graphics.rs), spatial transform math (components.rs), the winit event  *)
(* loop with per-frame scene assembly (lib.rs) and the fixed-timestep      *)
(* simulation clock.                                                       *)
(*                                                                         *)
(* Numbers.  Every f32 of the program is a fixed-point integer in units of *)
(* 1/ONE; products and quotients are rounded to the nearest unit, as f32    *)
(* arithmetic rounds each operation.  Comparisons of computed coordinates  *)
(* are made within Tol units.  Frame and cache indices are u16.            *)
(***************************************************************************)
EXTENDS Integers, Sequences, FiniteSets, TLC

(***************************************************************************)
(* Bounds of the model.                                                    *)
(***************************************************************************)
MaxCoord == 2
MaxUpdates == 2
MaxShapes == 2
MaxRedraws == 2
MaxCapShapes == 3
MaxFrames == 3
MaxRawElapsedMs == 40
Tol == 20

(***************************************************************************)
(* Program constants.                                                      *)
(***************************************************************************)
ONE == 1000
U16Modulus == 65536
U16Max == 65535

(***************************************************************************)
(* Fixed-point arithmetic standing for f32 arithmetic.                     *)
(***************************************************************************)
Abs(x) == IF x < 0 THEN -x ELSE x

RoundDiv(n, d) == (2 * n + d) \div (2 * d)

FMul(a, b) == RoundDiv(a * b, ONE)

FDiv(a, b) == IF b > 0 THEN RoundDiv(a * ONE, b) ELSE -RoundDiv(a * ONE, -b)

Close(a, b) == Abs(a - b) <= Tol

ClosePoint(p, q) == Close(p[1], q[1]) /\ Close(p[2], q[2])

(***************************************************************************)
(* State.  shape*: one shape and its geometry cache.  The loop, clock,     *)
(* xf_* and cap_* groups are described where their actions are defined.    *)
(***************************************************************************)
VARIABLES shape, shape_pc, shape_updates, shape_last, shape_tess_error,
          shape_stroked

shapeVars ==
  <<shape, shape_pc, shape_updates, shape_last, shape_tess_error, shape_stroked>>

\* Whether the build checks integer overflow (a debug build panics on it, a
\* release build wraps).
VARIABLE overflow_checks

VARIABLES state_window_size, state_size_changed, state_render, control_flow,
          loop_pc, device_size, depth_texture_view, camera,
          world, frame_vertices, frame_indices, max_geometry_vertices,
          max_geometry_indices, frame_count, frame_log,
          n_redraw_requested, n_presented

loopVars ==
  <<state_window_size, state_size_changed, state_render, control_flow, loop_pc,
    device_size, depth_texture_view, camera, world,
    frame_vertices, frame_indices, max_geometry_vertices, max_geometry_indices,
    frame_count, frame_log, n_redraw_requested, n_presented>>

VARIABLES clock_state, accumulator, clock_elapsed, frame_updates,
          frame_start_accumulator, total_updates, total_capped, frames_started

clockVars ==
  <<clock_state, accumulator, clock_elapsed, frame_updates,
    frame_start_accumulator, total_updates, total_capped, frames_started>>

VARIABLES xf_transform, xf_point, xf_world, xf_back, xf_pc

xformVars == <<xf_transform, xf_point, xf_world, xf_back, xf_pc>>

VARIABLES cap_world, cap_vertices_len, cap_indices, cap_result

capVars == <<cap_world, cap_vertices_len, cap_indices, cap_result>>

\* game: the GeometryWars struct; game_last: the inputs of the latest
\* on_update call and what it and the geometry example's on_update returned.
VARIABLES game, game_pc, game_updates, game_last, quit_seen

gameVars == <<game, game_pc, game_updates, game_last, quit_seen>>

\* The Scene begun by Renderer::begin_scene: its primitives buffer and its
\* instance count.
VARIABLES scene_primitives, geometry_rect_instances, scene_pc

sceneVars == <<scene_primitives, geometry_rect_instances, scene_pc>>

\* The GeometryWars game: its fields and entities, whether on_create has run,
\* the number of on_update calls and what the last one was given.
VARIABLES wars, wars_pc, wars_updates, wars_last

warsVars == <<wars, wars_pc, wars_updates, wars_last>>

vars ==
  <<shapeVars, overflow_checks, loopVars, clockVars, xformVars, capVars, gameVars,
    sceneVars,
    warsVars>>

notShape == <<overflow_checks, loopVars, clockVars, xformVars, capVars, gameVars,
    sceneVars,
    warsVars>>

notLoop == <<shapeVars, overflow_checks, clockVars, xformVars, capVars, gameVars,
    sceneVars,
    warsVars>>

notClock == <<shapeVars, overflow_checks, loopVars, xformVars, capVars, gameVars,
    sceneVars,
    warsVars>>

notXform == <<shapeVars, overflow_checks, loopVars, clockVars, capVars, gameVars,
    sceneVars,
    warsVars>>

notCap == <<shapeVars, overflow_checks, loopVars, clockVars, xformVars, gameVars,
    sceneVars,
    warsVars>>

notGame == <<shapeVars, overflow_checks, loopVars, clockVars, xformVars, capVars,
    sceneVars,
    warsVars>>


notScene ==
  <<shapeVars, overflow_checks, loopVars, clockVars, xformVars, capVars, gameVars,
    warsVars>>

notWars ==
  <<shapeVars, overflow_checks, loopVars, clockVars, xformVars, capVars, gameVars,
    sceneVars>>

(***************************************************************************)
(* f32::sin and f32::cos of an angle given in whole degrees (the program   *)
(* converts with to_radians()).  Bhaskara's rational approximation: exact  *)
(* at every multiple of 30 and 90 degrees that has a rational sine.        *)
(***************************************************************************)
SinHalfTurn(x) == (4 * x * (180 - x) * ONE) \div (40500 - x * (180 - x))

SinDeg(d) ==
  LET x == d % 360
  IN IF x <= 180 THEN SinHalfTurn(x) ELSE -SinHalfTurn(x - 180)

CosDeg(d) == SinDeg(d + 90)

(***************************************************************************)
(* glam::Mat4 as rows 1..4 of columns 1..4, and glam::Vec4 as a 4-tuple.   *)
(***************************************************************************)
Mat4Identity ==
  << <<ONE, 0, 0, 0>>, <<0, ONE, 0, 0>>, <<0, 0, ONE, 0>>, <<0, 0, 0, ONE>> >>

Mat4FromTranslation(x, y, z) ==
  << <<ONE, 0, 0, x>>, <<0, ONE, 0, y>>, <<0, 0, ONE, z>>, <<0, 0, 0, ONE>> >>

Mat4FromRotationZ(deg) ==
  LET c == CosDeg(deg)
      s == SinDeg(deg)
  IN << <<c, -s, 0, 0>>, <<s, c, 0, 0>>, <<0, 0, ONE, 0>>, <<0, 0, 0, ONE>> >>

Mat4FromScale(x, y, z) ==
  << <<x, 0, 0, 0>>, <<0, y, 0, 0>>, <<0, 0, z, 0>>, <<0, 0, 0, ONE>> >>

Mat4Dot(a, b, i, j) ==
  FMul(a[i][1], b[1][j]) + FMul(a[i][2], b[2][j])
    + FMul(a[i][3], b[3][j]) + FMul(a[i][4], b[4][j])

Mat4Row(a, b, i) ==
  <<Mat4Dot(a, b, i, 1), Mat4Dot(a, b, i, 2), Mat4Dot(a, b, i, 3), Mat4Dot(a, b, i, 4)>>

Mat4Mul(a, b) ==
  <<Mat4Row(a, b, 1), Mat4Row(a, b, 2), Mat4Row(a, b, 3), Mat4Row(a, b, 4)>>

Mat4Coord(m, v, i) ==
  FMul(m[i][1], v[1]) + FMul(m[i][2], v[2]) + FMul(m[i][3], v[3]) + FMul(m[i][4], v[4])

Mat4MulVec4(m, v) ==
  <<Mat4Coord(m, v, 1), Mat4Coord(m, v, 2), Mat4Coord(m, v, 3), Mat4Coord(m, v, 4)>>

\* t * Vec4::from((position, 0.0, 1.0)), keeping [transformed.x, transformed.y].
TransformPoint(m, p) ==
  LET transformed == Mat4MulVec4(m, <<p[1], p[2], 0, ONE>>)
  IN <<transformed[1], transformed[2]>>

(***************************************************************************)
(* components.rs: Transform and its forward and inverse matrices.          *)
(***************************************************************************)
TransformDefault ==
  [translation |-> <<0, 0>>, rotation |-> 0, scale |-> <<ONE, ONE>>, origin |-> <<0, 0>>]

compute_transformation_matrix_unnegated(t) ==
  LET m0 == Mat4FromTranslation(t.translation[1] - t.origin[1],
                                t.translation[2] - t.origin[2], 0)
      m1 == Mat4Mul(m0, Mat4FromTranslation(t.origin[1], t.origin[2], 0))
      m2 == Mat4Mul(m1, Mat4FromRotationZ(t.rotation))
      m3 == Mat4Mul(m2, Mat4FromTranslation(-t.origin[1], -t.origin[2], 0))
  IN Mat4Mul(m3, Mat4FromScale(t.scale[1], t.scale[2], 0))

compute_transformation_matrix(t) ==
  LET m0 == Mat4FromTranslation(t.translation[1] - t.origin[1],
                                t.translation[2] - t.origin[2], 0)
      m1 == Mat4Mul(m0, Mat4FromTranslation(t.origin[1], t.origin[2], 0))
      m2 == Mat4Mul(m1, Mat4FromRotationZ(-t.rotation))
      m3 == Mat4Mul(m2, Mat4FromTranslation(-t.origin[1], -t.origin[2], 0))
  IN Mat4Mul(m3, Mat4FromScale(t.scale[1], t.scale[2], 0))

compute_inverse_transformation_matrix(t) ==
  LET m0 == Mat4FromScale(FDiv(ONE, t.scale[1]), FDiv(ONE, t.scale[2]), 0)
      m1 == Mat4Mul(m0, Mat4FromRotationZ(t.rotation))
  IN Mat4Mul(m1, Mat4FromTranslation(t.origin[1] - t.translation[1],
                                     t.origin[2] - t.translation[2], 0))

(***************************************************************************)
(* graphics.rs: colors, vertices and the geometry cache                    *)
(* (VertexBuffers<GeometryVertex, u16>).  Indices are kept 0-based as in   *)
(* the program; vertices[i + 1] is the vertex that index i names.          *)
(***************************************************************************)
WHITE == "white"

BLACK == "black"

Colors == {WHITE, BLACK}

GeometryVertex(pos, c) == [position |-> pos, color |-> c]

VertexBuffersNew == [vertices |-> <<>>, indices |-> <<>>]

(***************************************************************************)
(* lyon paths.  A path is given by its flattened boundary points (a        *)
(* function on 1..n), their number n and whether it is closed.             *)
(***************************************************************************)
\* Three boundary points a third of the way apart (closed path), or the two
\* ends (open path), coincide: the path encloses or spans nothing.
PathDegenerate(points, n, closed) ==
  IF closed
  THEN \/ n < 3
       \/ LET a == points[1]
              b == points[1 + n \div 3]
              c == points[1 + (2 * n) \div 3]
          IN a = b \/ b = c \/ a = c
  ELSE n < 2 \/ points[1] = points[n]

Sign(x) == IF x > 0 THEN 1 ELSE IF x < 0 THEN -1 ELSE 0

\* The stroke normal lyon reports at boundary point k, scaled so that a
\* right-angle corner's miter normal is the unit diagonal; it points away
\* from the middle of the path (closed) or across the segment (open).
StrokeNormal(points, n, closed, k) ==
  LET p == points[k]
  IN IF closed
     THEN LET q == points[1 + ((k - 1 + n \div 2) % n)]
          IN <<Sign(p[1] - q[1]) * ONE, Sign(p[2] - q[2]) * ONE>>
     ELSE LET a == points[1]
              b == points[n]
          IN <<-Sign(b[2] - a[2]) * ONE, Sign(b[1] - a[1]) * ONE>>

(***************************************************************************)
(* The vertex constructors of graphics.rs.                                 *)
(***************************************************************************)
\* FillVertexConstructor for GeometryVertexCtor
FillNewVertex(color, position) == GeometryVertex(position, color)

\* StrokeVertexConstructor for GeometryVertexCtor
StrokeNewVertex(color, position_on_path, normal, line_width, side_negative) ==
  LET pos ==
        IF side_negative
        THEN position_on_path
        ELSE <<position_on_path[1] + FMul(normal[1], line_width),
               position_on_path[2] + FMul(normal[2], line_width)>>
  IN GeometryVertex(pos, color)

\* StrokeVertexConstructor for GeometryVertexLineCtor (vertex.position())
LineNewVertex(color, position_on_path, normal, line_width, side_negative) ==
  LET half == line_width \div 2
      s == IF side_negative THEN -1 ELSE 1
  IN GeometryVertex(<<position_on_path[1] + s * FMul(normal[1], half),
                      position_on_path[2] + s * FMul(normal[2], half)>>, color)

(***************************************************************************)
(* lyon's tessellators writing through BuffersBuilder::new(geometry, ctor) *)
(* .with_inverted_winding().  BuffersBuilder appends to the buffers it is  *)
(* given: new vertices go after the ones already there and the triangles   *)
(* name them by their place in the whole buffer.  A vertex that would get  *)
(* an index above u16::MAX makes the tessellation fail with                *)
(* TooManyVertices, the buffers cut back to where the tessellation began.  *)
(* The result is [ok, geometry].                                           *)
(***************************************************************************)
\* Fill of a closed simple boundary of n points: n vertices, n - 2 triangles.
FillTessellatePath(points, n, closed, color, geometry) ==
  LET base == Len(geometry.vertices)
  IN IF PathDegenerate(points, n, closed) \/ ~closed
     THEN [ok |-> TRUE, geometry |-> geometry]
     ELSE IF base + n > U16Max
     THEN [ok |-> FALSE, geometry |-> geometry]
     ELSE [ok |-> TRUE,
           geometry |->
             [vertices |-> geometry.vertices \o
                 [k \in 1..n |-> FillNewVertex(color, points[k])],
              indices |-> geometry.indices \o
                 [j \in 1..(3 * (n - 2)) |->
                    LET tri == (j - 1) \div 3
                        corner == (j - 1) % 3
                    IN IF corner = 0 THEN base
                       ELSE IF corner = 1 THEN base + tri + 2
                       ELSE base + tri + 1]]]

\* Stroke: two vertices (negative side, positive side) per boundary point and
\* two triangles per segment; a closed path has as many segments as points.
StrokeTessellatePath(points, n, closed, color, line_width, line_ctor, geometry) ==
  LET base == Len(geometry.vertices)
      segs == IF closed THEN n ELSE n - 1
      NewVertex(k, neg) ==
        IF line_ctor
        THEN LineNewVertex(color, points[k], StrokeNormal(points, n, closed, k),
                           line_width, neg)
        ELSE StrokeNewVertex(color, points[k], StrokeNormal(points, n, closed, k),
                             line_width, neg)
  IN IF PathDegenerate(points, n, closed)
     THEN [ok |-> TRUE, geometry |-> geometry]
     ELSE IF base + 2 * n > U16Max
     THEN [ok |-> FALSE, geometry |-> geometry]
     ELSE [ok |-> TRUE,
           geometry |->
             [vertices |-> geometry.vertices \o
                 [v \in 1..(2 * n) |-> NewVertex((v + 1) \div 2, v % 2 = 1)],
              indices |-> geometry.indices \o
                 [j \in 1..(6 * segs) |->
                    LET seg == (j - 1) \div 6
                        corner == (j - 1) % 6
                        a == 2 * seg
                        b == (2 * (seg + 1)) % (2 * n)
                    IN base + (CASE corner = 0 -> a
                                 [] corner = 1 -> b
                                 [] corner = 2 -> a + 1
                                 [] corner = 3 -> a + 1
                                 [] corner = 4 -> b
                                 [] OTHER -> b + 1)]]]

(***************************************************************************)
(* graphics.rs: Tesselator.  tolerance is 0.02 in every caller.            *)
(***************************************************************************)
Tolerance == 20

\* Tesselator::tesselate: fill, then stroke when outline_thickness > 0.0; each
\* tessellate_path(..).unwrap() panics on Err.  Result [panicked, tess_error,
\* stroked, geometry], stroked being whether stroke_tess.tessellate_path ran.
tesselate(points, n, closed, fill_color, outline_color, outline_thickness, geometry) ==
  LET fill == FillTessellatePath(points, n, closed, fill_color, geometry)
  IN IF ~fill.ok
     THEN [panicked |-> TRUE, tess_error |-> TRUE, stroked |-> FALSE,
           geometry |-> fill.geometry]
     ELSE IF outline_thickness > 0
     THEN LET stroke == StrokeTessellatePath(points, n, closed, outline_color,
                                             outline_thickness, FALSE, fill.geometry)
          IN [panicked |-> ~stroke.ok, tess_error |-> ~stroke.ok, stroked |-> TRUE,
              geometry |-> stroke.geometry]
     ELSE [panicked |-> FALSE, tess_error |-> FALSE, stroked |-> FALSE,
           geometry |-> fill.geometry]

tesselate_line_unguarded(points, n, closed, outline_color, outline_thickness, geometry) ==
  LET stroke == StrokeTessellatePath(points, n, closed, outline_color,
                                     outline_thickness, TRUE, geometry)
  IN [panicked |-> ~stroke.ok, tess_error |-> ~stroke.ok, stroked |-> TRUE,
      geometry |-> stroke.geometry]

\* Tesselator::tesselate_line: stroke only, when outline_thickness > 0.0.
tesselate_line(points, n, closed, outline_color, outline_thickness, geometry) ==
  IF outline_thickness > 0
  THEN LET stroke == StrokeTessellatePath(points, n, closed, outline_color,
                                          outline_thickness, TRUE, geometry)
       IN [panicked |-> ~stroke.ok, tess_error |-> ~stroke.ok, stroked |-> TRUE,
           geometry |-> stroke.geometry]
  ELSE [panicked |-> FALSE, tess_error |-> FALSE, stroked |-> FALSE,
        geometry |-> geometry]

(***************************************************************************)
(* graphics.rs: the four shapes, their Default and their boundary paths.   *)
(***************************************************************************)
CircleShapeDefault ==
  [kind |-> "Circle", radius |-> 0, fill_color |-> WHITE, outline_thickness |-> 0,
   outline_color |-> WHITE, geometry |-> VertexBuffersNew]

LineShapeDefault ==
  [kind |-> "Line", length |-> 0, angle |-> 0, outline_thickness |-> 0,
   outline_color |-> WHITE, geometry |-> VertexBuffersNew]

PolygonShapeDefault ==
  [kind |-> "Polygon", radius |-> 0, point_count |-> 3, fill_color |-> WHITE,
   outline_thickness |-> 0, outline_color |-> WHITE, geometry |-> VertexBuffersNew]

RectangleShapeDefault ==
  [kind |-> "Rect", size |-> <<0, 0>>, fill_color |-> WHITE, outline_thickness |-> 0,
   outline_color |-> WHITE, geometry |-> VertexBuffersNew]

ShapeDefault(kind) ==
  CASE kind = "Circle" -> CircleShapeDefault
    [] kind = "Line" -> LineShapeDefault
    [] kind = "Polygon" -> PolygonShapeDefault
    [] OTHER -> RectangleShapeDefault

\* Point on circumference = (x + r*cos(a), y + r*sin(a)), a in whole degrees.
PointOnCircle(cx, cy, r, deg) == <<cx + FMul(r, CosDeg(deg)), cy + FMul(r, SinDeg(deg))>>

\* The number of points lyon flattens a circle of this radius to at this
\* tolerance: more for a larger radius or a finer tolerance.
CircleSegments(radius, tolerance) == 4 * (1 + radius \div (50 * tolerance))

\* builder.add_circle(point(radius, radius), radius, Winding::Positive)
CirclePath(radius, n) ==
  [k \in 1..n |-> PointOnCircle(radius, radius, radius, ((k - 1) * 360) \div n)]

\* LineSegment { from: (0, 0), to: (length * cos(a), length * sin(a)) },
\* a = (-angle).to_radians() + 90.to_radians()
LinePath(length, angle) == <<<<0, 0>>, PointOnCircle(0, 0, length, 90 - angle)>>

PolygonPathFromZero(radius, point_count) ==
  [k \in 1..point_count |->
     PointOnCircle(radius, radius, radius, ((k - 1) * 360) \div point_count)]

\* Polygon { points, closed: true }, point i at i / point_count * 360 + 90 degrees
PolygonPath(radius, point_count) ==
  [k \in 1..point_count |->
     PointOnCircle(radius, radius, radius, ((k - 1) * 360) \div point_count + 90)]

\* builder.add_rectangle(&Box2D::new(point(0, 0), point(size.x, size.y)), Winding::Positive)
RectanglePath(size) == <<<<0, 0>>, <<size[1], 0>>, <<size[1], size[2]>>, <<0, size[2]>>>>

(***************************************************************************)
(* Geometry::update for each shape.  Result [panicked, tess_error,         *)
(* stroked, geometry]: geometry is the shape's cache after the call.       *)
(***************************************************************************)
CircleShapeUpdate(s) ==
  LET n == CircleSegments(s.radius, Tolerance)
  IN tesselate(CirclePath(s.radius, n), n, TRUE, s.fill_color, s.outline_color,
               s.outline_thickness, s.geometry)

LineShapeUpdate(s) ==
  tesselate_line(LinePath(s.length, s.angle), 2, FALSE, s.outline_color,
                 s.outline_thickness, s.geometry)

PolygonShapeUpdate(s) ==
  IF s.point_count >= 3
  THEN tesselate(PolygonPath(s.radius, s.point_count), s.point_count, TRUE,
                 s.fill_color, s.outline_color, s.outline_thickness, s.geometry)
  ELSE [panicked |-> FALSE, tess_error |-> FALSE, stroked |-> FALSE,
        geometry |-> s.geometry]

RectangleShapeUpdate(s) ==
  tesselate(RectanglePath(s.size), 4, TRUE, s.fill_color, s.outline_color,
            s.outline_thickness, s.geometry)

GeometryUpdate(s) ==
  CASE s.kind = "Circle" -> CircleShapeUpdate(s)
    [] s.kind = "Line" -> LineShapeUpdate(s)
    [] s.kind = "Polygon" -> PolygonShapeUpdate(s)
    [] OTHER -> RectangleShapeUpdate(s)

(***************************************************************************)
(* State.                                                                  *)
(*   shape ...            one shape object of a game and what was last     *)
(*                        done to it                                       *)
(***************************************************************************)
(***************************************************************************)
(* Inputs of the shape operations.                                         *)
(***************************************************************************)
BigPointCount == 70000

ShapeKinds == {"Circle", "Line", "Polygon", "Rect"}

Radii == {0, MaxCoord * ONE}

Sizes == {<<0, 0>>, <<MaxCoord * ONE, ONE>>}

PointCounts == {2, 3, 5, BigPointCount}

Thicknesses == {-ONE, 0, ONE}

Lengths == {0, MaxCoord * ONE}

Angles == {0, 60}

(***************************************************************************)
(* A game's use of one shape: construct it with Default, edit its public   *)
(* fields, call update().                                                  *)
(***************************************************************************)
ShapeInit ==
  /\ shape \in {ShapeDefault(k) : k \in ShapeKinds}
  /\ shape_pc = "live"
  /\ shape_updates = 0
  /\ shape_last = "new"
  /\ shape_tess_error = FALSE
  /\ shape_stroked = FALSE

ShapeIdle ==
  /\ shape = RectangleShapeDefault
  /\ shape_pc = "live"
  /\ shape_updates = 0
  /\ shape_last = "new"
  /\ shape_tess_error = FALSE
  /\ shape_stroked = FALSE

EditRetessellating(field, value) ==
  /\ shape_pc = "live"
  /\ field \in DOMAIN shape
  /\ shape[field] # value
  /\ shape' = [shape EXCEPT ![field] = value,
                            !.geometry = GeometryUpdate([shape EXCEPT ![field] = value]).geometry]
  /\ shape_last' = "edit"
  /\ UNCHANGED <<shape_pc, shape_updates, shape_tess_error, shape_stroked>>
  /\ UNCHANGED notShape

Edit(field, value) ==
  /\ shape_pc = "live"
  /\ field \in DOMAIN shape
  /\ shape[field] # value
  /\ shape' = [shape EXCEPT ![field] = value]
  /\ shape_last' = "edit"
  /\ UNCHANGED <<shape_pc, shape_updates, shape_tess_error, shape_stroked>>
  /\ UNCHANGED notShape

SetRadius == \E r \in Radii : Edit("radius", r)

SetSize == \E sz \in Sizes : Edit("size", sz)

SetPointCount == \E n \in PointCounts : Edit("point_count", n)

SetLength == \E l \in Lengths : Edit("length", l)

SetAngle == \E a \in Angles : Edit("angle", a)

SetFillColor == \E c \in Colors : Edit("fill_color", c)

SetOutlineThickness == \E th \in Thicknesses : Edit("outline_thickness", th)

SetOutlineColor == \E c \in Colors : Edit("outline_color", c)

\* shape.update(&mut tesselator)
Update ==
  /\ shape_pc = "live"
  /\ shape_updates < MaxUpdates
  /\ LET r == GeometryUpdate(shape)
     IN /\ shape' = [shape EXCEPT !.geometry = r.geometry]
        /\ shape_pc' = IF r.panicked THEN "panicked" ELSE "live"
        /\ shape_tess_error' = r.tess_error
        /\ shape_stroked' = r.stroked
  /\ shape_updates' = shape_updates + 1
  /\ shape_last' = "update"
  /\ UNCHANGED notShape

ShapeNext ==
  \/ SetRadius
  \/ SetSize
  \/ SetPointCount
  \/ SetLength
  \/ SetAngle
  \/ SetFillColor
  \/ SetOutlineThickness
  \/ SetOutlineColor
  \/ Update

(***************************************************************************)
(* lib.rs: start().  FrameState, the graphics device, the renderer, the    *)
(* camera and the world of (Transform, Drawable) pairs, which start()      *)
(* fills before the loop runs and never changes afterwards; the frame      *)
(* buffers Vec<Vertex> and Vec<u16> of the last frame assembled; what the  *)
(* last callback did (frame_log) and how many frames were requested and    *)
(* presented.                                                              *)
(***************************************************************************)
DEFAULT_WINDOW_WIDTH == 1024

\* DEFAULT_WINDOW_WIDTH as f32 / ASPECT_RATIO, ASPECT_RATIO = 16 / 9, as u32
DEFAULT_WINDOW_HEIGHT == (DEFAULT_WINDOW_WIDTH * 9) \div 16

\* The capacity the renderer's geometry buffers start with.
InitialGeometryCapacity == 16

(***************************************************************************)
(* camera.rs                                                               *)
(***************************************************************************)
OrthographicLh(left, right, bottom, top, near, far) ==
  [left |-> left, right |-> right, bottom |-> bottom, top |-> top,
   near |-> near, far |-> far]

CameraNew(width, height) ==
  [width |-> width, height |-> height,
   projection |-> OrthographicLh(0, width, 0, height, -1, 10)]

CameraResize(cam, width, height) ==
  [cam EXCEPT !.width = width, !.height = height,
              !.projection = OrthographicLh(0, width, 0, height, -1, 10)]

(***************************************************************************)
(* The entities a world is made of: each is spawned as start() spawns      *)
(* them, a Default shape with its fields set and update() called once.     *)
(***************************************************************************)
SpawnDrawable(s) == [s EXCEPT !.geometry = GeometryUpdate(s).geometry]

Entity(transform, s) == [transform |-> transform, drawable |-> SpawnDrawable(s)]

EntityCatalog ==
  { Entity([TransformDefault EXCEPT !.translation = <<ONE, ONE>>],
           [RectangleShapeDefault EXCEPT !.size = <<MaxCoord * ONE, ONE>>,
                                         !.fill_color = BLACK]),
    Entity([TransformDefault EXCEPT !.translation = <<2 * ONE, 2 * ONE>>,
                                    !.rotation = 30, !.origin = <<ONE, ONE>>],
           [RectangleShapeDefault EXCEPT !.size = <<2 * ONE, 2 * ONE>>,
                                         !.outline_thickness = ONE,
                                         !.outline_color = BLACK]),
    Entity([TransformDefault EXCEPT !.translation = <<4 * ONE, ONE>>,
                                    !.origin = <<ONE, ONE>>],
           [CircleShapeDefault EXCEPT !.radius = ONE]) }

RECURSIVE SeqsUpTo(_, _)
SeqsUpTo(S, n) ==
  IF n = 0 THEN {<<>>}
  ELSE LET shorter == SeqsUpTo(S, n - 1)
       IN shorter \cup {Append(q, x) : q \in shorter, x \in S}

Worlds == SeqsUpTo(EntityCatalog, MaxShapes)

WindowSizes == {<<0, 0>>, <<800, 600>>, <<DEFAULT_WINDOW_WIDTH, DEFAULT_WINDOW_HEIGHT>>}

(***************************************************************************)
(* lib.rs 285-319: the frame assembly loop.  Each pair's vertices are      *)
(* transformed by its world matrix and pushed; index_offset is             *)
(* vertices.len() as u16 (the cast keeps the low 16 bits) and each cached  *)
(* index i is pushed as index_offset + i, a u16 addition: on overflow a    *)
(* build with overflow checks panics and one without wraps.  The result    *)
(* is [vertices, indices, overflowed], indices as wrapped.                 *)
(***************************************************************************)
FrameVertexUntransformed(t, v) == [position |-> v.position, color |-> v.color]

FrameVertex(t, v) == [position |-> TransformPoint(t, v.position), color |-> v.color]

AsU16(n) == n % U16Modulus

RECURSIVE AssembleFrame(_, _, _)
AssembleFrame(w, k, frame) ==
  IF k > Len(w) THEN frame
  ELSE LET t == compute_transformation_matrix(w[k].transform)
           index_offset == AsU16(Len(frame.vertices))
           geometry == w[k].drawable.geometry
           pushed == [j \in 1..Len(geometry.vertices) |-> FrameVertex(t, geometry.vertices[j])]
           offset == [j \in 1..Len(geometry.indices) |-> index_offset + geometry.indices[j]]
       IN AssembleFrame(w, k + 1,
            [vertices |-> frame.vertices \o pushed,
             indices |-> frame.indices \o [j \in DOMAIN offset |-> AsU16(offset[j])],
             overflowed |-> frame.overflowed \/ \E j \in DOMAIN offset : offset[j] > U16Max])

EmptyFrame == [vertices |-> <<>>, indices |-> <<>>, overflowed |-> FALSE]

(***************************************************************************)
(* lib.rs 453-509: process_event.  The result is what the function leaves  *)
(* in FrameState and control_flow and the bool it returns.                 *)
(***************************************************************************)
process_event_render_always(event, window_size, size_changed, render, flow) ==
  IF event.type \in {"Destroyed", "CloseRequested"}
     \/ (event.type = "KeyPressed" /\ event.key = "Escape")
    THEN [window_size |-> window_size, size_changed |-> size_changed,
          render |-> render, control_flow |-> "Exit", returned |-> FALSE]
    ELSE [window_size |-> IF event.type = "Resized" THEN event.size ELSE window_size,
          size_changed |-> size_changed \/ event.type = "Resized",
          render |-> TRUE, control_flow |-> "Poll", returned |-> TRUE]

process_event_escape_ignored(event, window_size, size_changed, render, flow) ==
  IF event.type \in {"Destroyed", "CloseRequested"}
    THEN [window_size |-> window_size, size_changed |-> size_changed,
          render |-> render, control_flow |-> "Exit", returned |-> FALSE]
    ELSE [window_size |-> IF event.type = "Resized" THEN event.size ELSE window_size,
          size_changed |-> size_changed \/ event.type = "Resized",
          render |-> render \/ event.type = "RedrawRequested",
          control_flow |-> "Poll", returned |-> TRUE]

process_event(event, window_size, size_changed, render, flow) ==
  CASE event.type = "RedrawRequested" ->
         [window_size |-> window_size, size_changed |-> size_changed,
          render |-> TRUE, control_flow |-> "Poll", returned |-> TRUE]
    [] event.type \in {"Destroyed", "CloseRequested"} ->
         [window_size |-> window_size, size_changed |-> size_changed,
          render |-> render, control_flow |-> "Exit", returned |-> FALSE]
    [] event.type = "Resized" ->
         [window_size |-> event.size, size_changed |-> TRUE,
          render |-> render, control_flow |-> "Poll", returned |-> TRUE]
    [] event.type = "KeyPressed" /\ event.key = "Escape" ->
         [window_size |-> window_size, size_changed |-> size_changed,
          render |-> render, control_flow |-> "Exit", returned |-> FALSE]
    [] OTHER ->
         [window_size |-> window_size, size_changed |-> size_changed,
          render |-> render, control_flow |-> "Poll", returned |-> TRUE]

\* renderer.rs 186-193: a resize to a zero width or height is ignored.
DeviceResize(size, new_size) ==
  IF new_size[1] > 0 /\ new_size[2] > 0 THEN new_size ELSE size

\* Renderer::resize_geometry_buffers(device, vertices, indices): the buffers
\* are recreated to hold the frame that did not fit.
resize_geometry_buffers(max_vertices, max_indices, n_vertices, n_indices) ==
  [max_geometry_vertices |-> n_vertices, max_geometry_indices |-> n_indices]

(***************************************************************************)
(* lib.rs 260-444: one run of the event loop's callback on one event, as   *)
(* the record st of what it leaves behind.  acquired is whether            *)
(* get_current_texture() returned a texture, report whether the FPS report *)
(* was due.                                                                *)
(***************************************************************************)

ResizeStepSkipped(st) == st

\* lib.rs 267-274
ResizeStep(st) ==
  IF st.size_changed
    THEN [st EXCEPT !.size_changed = FALSE,
            !.device_size = DeviceResize(st.device_size, st.window_size),
            !.depth = TRUE,
            !.camera = CameraResize(st.camera, st.window_size[1], st.window_size[2]),
            !.log = <<"resize">>]
    ELSE st

GrowStepNever(st, n_vertices, n_indices) == st

\* lib.rs 356-360
GrowStep(st, n_vertices, n_indices) ==
  IF n_vertices > st.max_v \/ n_indices > st.max_i
    THEN LET grown == resize_geometry_buffers(st.max_v, st.max_i, n_vertices, n_indices)
         IN [st EXCEPT !.max_v = grown.max_geometry_vertices,
                       !.max_i = grown.max_geometry_indices,
                       !.log = st.log \o <<"resize_geometry_buffers">>]
    ELSE st

\* lib.rs 283-328: the render flag is cleared, the frame is assembled and the
\* globals are written.
FrameStep(st, frame) ==
  [st EXCEPT !.render = FALSE,
             !.vertices = frame.vertices, !.indices = frame.indices,
             !.log = st.log \o <<"assemble", "write_globals">>]

\* lib.rs 338-376: the encoder and the staging buffers are created, the
\* geometry buffers grown if needed, the frame copied into them.
UploadStep(st) ==
  LET grown == GrowStep([st EXCEPT !.log = st.log \o <<"create_buffers">>],
                        Len(st.vertices), Len(st.indices))
  IN [grown EXCEPT !.log = grown.log \o <<"copy">>]

RenderStepErrorNotReturning(st, frame, acquired, report) ==
  IF frame.overflowed /\ overflow_checks
    THEN [st EXCEPT !.render = FALSE, !.pc = "panicked",
                    !.log = st.log \o <<"panic">>]
  ELSE IF ~st.depth
    THEN [UploadStep(FrameStep(st, frame)) EXCEPT !.pc = "panicked",
                                                  !.log = @ \o <<"panic">>]
  ELSE [UploadStep([FrameStep(st, frame) EXCEPT
                      !.log = IF acquired THEN @ ELSE @ \o <<"swapchain error">>]) EXCEPT
          !.frame_count = IF report THEN 0 ELSE st.frame_count + 1,
          !.presented = st.presented + 1,
          !.log = @ \o <<"pass", "submit", "present">>]

\* lib.rs 283-443, frame being the vertices and indices assembled
RenderStep(st, frame, acquired, report) ==
  IF frame.overflowed /\ overflow_checks
    THEN [st EXCEPT !.render = FALSE, !.pc = "panicked",
                    !.log = st.log \o <<"panic">>]
  ELSE IF ~acquired
    THEN [FrameStep(st, frame) EXCEPT !.log = @ \o <<"swapchain error">>]
  ELSE IF ~st.depth
    THEN [UploadStep(FrameStep(st, frame)) EXCEPT !.pc = "panicked",
                                                  !.log = @ \o <<"panic">>]
  ELSE [UploadStep(FrameStep(st, frame)) EXCEPT
          !.frame_count = IF report THEN 0 ELSE st.frame_count + 1,
          !.presented = st.presented + 1,
          !.log = @ \o <<"pass", "submit", "present">>]

Callback(event, acquired, report) ==
  LET pe == process_event(event, state_window_size, state_size_changed,
                          state_render, control_flow)
      st == [window_size |-> pe.window_size, size_changed |-> pe.size_changed,
             render |-> pe.render, control_flow |-> pe.control_flow,
             pc |-> IF event.type = "LoopDestroyed" THEN "exited" ELSE "running",
             device_size |-> device_size, depth |-> depth_texture_view,
             camera |-> camera, vertices |-> frame_vertices,
             indices |-> frame_indices, max_v |-> max_geometry_vertices,
             max_i |-> max_geometry_indices, frame_count |-> frame_count,
             presented |-> n_presented, log |-> <<>>]
  IN IF ~pe.returned
       THEN [st EXCEPT !.pc = "exiting"]
     ELSE IF ~pe.render
       THEN ResizeStep(st)
     ELSE RenderStep(ResizeStep(st), AssembleFrame(world, 1, EmptyFrame),
                     acquired, report)

Deliver(event, acquired, report) ==
  \E after \in {Callback(event, acquired, report)} :
     /\ state_window_size' = after.window_size
     /\ state_size_changed' = after.size_changed
     /\ state_render' = after.render
     /\ control_flow' = after.control_flow
     /\ loop_pc' = after.pc
     /\ device_size' = after.device_size
     /\ depth_texture_view' = after.depth
     /\ camera' = after.camera
     /\ frame_vertices' = after.vertices
     /\ frame_indices' = after.indices
     /\ max_geometry_vertices' = after.max_v
     /\ max_geometry_indices' = after.max_i
     /\ frame_count' = after.frame_count
     /\ n_presented' = after.presented
     /\ frame_log' = after.log
     /\ n_redraw_requested' =
          IF event.type = "RedrawRequested" THEN n_redraw_requested + 1
          ELSE n_redraw_requested
     /\ UNCHANGED world
     /\ UNCHANGED notLoop

LoopInit ==
  /\ state_window_size = <<DEFAULT_WINDOW_WIDTH, DEFAULT_WINDOW_HEIGHT>>
  /\ state_size_changed = TRUE
  /\ state_render = FALSE
  /\ control_flow = "Poll"
  /\ loop_pc = "running"
  /\ device_size = <<DEFAULT_WINDOW_WIDTH, DEFAULT_WINDOW_HEIGHT>>
  /\ depth_texture_view = FALSE
  /\ camera = CameraNew(DEFAULT_WINDOW_WIDTH, DEFAULT_WINDOW_HEIGHT)
  /\ world \in Worlds
  /\ frame_vertices = <<>>
  /\ frame_indices = <<>>
  /\ max_geometry_vertices = InitialGeometryCapacity
  /\ max_geometry_indices = InitialGeometryCapacity
  /\ frame_count = 0
  /\ frame_log = <<>>
  /\ n_redraw_requested = 0
  /\ n_presented = 0

LoopIdle ==
  /\ state_window_size = <<DEFAULT_WINDOW_WIDTH, DEFAULT_WINDOW_HEIGHT>>
  /\ state_size_changed = TRUE
  /\ state_render = FALSE
  /\ control_flow = "Poll"
  /\ loop_pc = "running"
  /\ device_size = <<DEFAULT_WINDOW_WIDTH, DEFAULT_WINDOW_HEIGHT>>
  /\ depth_texture_view = FALSE
  /\ camera = CameraNew(DEFAULT_WINDOW_WIDTH, DEFAULT_WINDOW_HEIGHT)
  /\ world = <<>>
  /\ frame_vertices = <<>>
  /\ frame_indices = <<>>
  /\ max_geometry_vertices = InitialGeometryCapacity
  /\ max_geometry_indices = InitialGeometryCapacity
  /\ frame_count = 0
  /\ frame_log = <<>>
  /\ n_redraw_requested = 0
  /\ n_presented = 0

OnRedrawRequested ==
  /\ loop_pc = "running"
  /\ n_redraw_requested < MaxRedraws
  /\ \E acquired \in BOOLEAN, report \in BOOLEAN :
       Deliver([type |-> "RedrawRequested"], acquired, report)

OnRedrawEventsCleared ==
  /\ loop_pc = "running"
  /\ Deliver([type |-> "RedrawEventsCleared"], TRUE, FALSE)

OnDestroyed ==
  /\ loop_pc = "running"
  /\ Deliver([type |-> "Destroyed"], TRUE, FALSE)

OnCloseRequested ==
  /\ loop_pc = "running"
  /\ Deliver([type |-> "CloseRequested"], TRUE, FALSE)

OnResized ==
  /\ loop_pc = "running"
  /\ \E size \in WindowSizes : Deliver([type |-> "Resized", size |-> size], TRUE, FALSE)

OnKeyPressed ==
  /\ loop_pc = "running"
  /\ \E key \in {"Escape", "A"} : Deliver([type |-> "KeyPressed", key |-> key], TRUE, FALSE)

\* Any other event, a released key among them.
OnOtherEvent ==
  /\ loop_pc = "running"
  /\ \E event \in {[type |-> "MainEventsCleared"],
                    [type |-> "KeyReleased", key |-> "Escape"]} :
       Deliver(event, TRUE, FALSE)

\* The event loop's last event once control_flow is Exit.
OnLoopDestroyed ==
  /\ loop_pc = "exiting"
  /\ Deliver([type |-> "LoopDestroyed"], TRUE, FALSE)

LoopNext ==
  \/ OnRedrawRequested
  \/ OnRedrawEventsCleared
  \/ OnDestroyed
  \/ OnCloseRequested
  \/ OnResized
  \/ OnKeyPressed
  \/ OnOtherEvent
  \/ OnLoopDestroyed

(***************************************************************************)
(* The simulation clock (spec.md 4.6), in whole milliseconds: idle ->      *)
(* accumulating (wall time measured, capped, added to the accumulator) ->  *)
(* stepping (while accumulator >= fixed step, one update and subtract the  *)
(* step) -> render-ready (one render/present) -> idle.                     *)
(***************************************************************************)
\* 1/100 s
FIXED_STEP == 10

\* 1/40 s
MAX_FRAME_TIME == 25

Min(a, b) == IF a <= b THEN a ELSE b

CapElapsedUncapped(raw) == raw

CapElapsed(raw) == Min(raw, MAX_FRAME_TIME)

ShouldStepStrict(acc) == acc > FIXED_STEP

ShouldStep(acc) == acc >= FIXED_STEP

ClockInit ==
  /\ clock_state = "idle"
  /\ accumulator = 0
  /\ clock_elapsed = 0
  /\ frame_updates = 0
  /\ frame_start_accumulator = 0
  /\ total_updates = 0
  /\ total_capped = 0
  /\ frames_started = 0

\* A platform frame begins: the wall time since the last one is measured.
MeasureElapsed ==
  /\ clock_state = "idle"
  /\ frames_started < MaxFrames
  /\ \E raw \in 0..MaxRawElapsedMs : clock_elapsed' = raw
  /\ clock_state' = "accumulating"
  /\ frames_started' = frames_started + 1
  /\ frame_updates' = 0
  /\ frame_start_accumulator' = accumulator
  /\ UNCHANGED <<accumulator, total_updates, total_capped>>
  /\ UNCHANGED notClock

\* The measured time is capped and added to the accumulator.
Accumulate ==
  /\ clock_state = "accumulating"
  /\ accumulator' = accumulator + CapElapsed(clock_elapsed)
  /\ total_capped' = total_capped + CapElapsed(clock_elapsed)
  /\ clock_state' = "stepping"
  /\ UNCHANGED <<clock_elapsed, frame_updates, frame_start_accumulator,
                 total_updates, frames_started>>
  /\ UNCHANGED notClock

\* One fixed-size update; the step is subtracted.
FixedUpdate ==
  /\ clock_state = "stepping"
  /\ ShouldStep(accumulator)
  /\ accumulator' = accumulator - FIXED_STEP
  /\ frame_updates' = frame_updates + 1
  /\ total_updates' = total_updates + 1
  /\ UNCHANGED <<clock_state, clock_elapsed, frame_start_accumulator,
                 total_capped, frames_started>>
  /\ UNCHANGED notClock

\* The stepping loop ends.
FinishStepping ==
  /\ clock_state = "stepping"
  /\ ~ShouldStep(accumulator)
  /\ clock_state' = "render_ready"
  /\ UNCHANGED <<accumulator, clock_elapsed, frame_updates,
                 frame_start_accumulator, total_updates, total_capped,
                 frames_started>>
  /\ UNCHANGED notClock

\* The one render/present of the platform frame.
RenderPresent ==
  /\ clock_state = "render_ready"
  /\ clock_state' = "idle"
  /\ UNCHANGED <<accumulator, clock_elapsed, frame_updates,
                 frame_start_accumulator, total_updates, total_capped,
                 frames_started>>
  /\ UNCHANGED notClock

ClockNext ==
  \/ MeasureElapsed
  \/ Accumulate
  \/ FixedUpdate
  \/ FinishStepping
  \/ RenderPresent

(***************************************************************************)
(* components.rs 39-55 applied to a point: a transform and a local point   *)
(* are chosen, the point is taken to world space by the forward matrix and *)
(* back by the inverse matrix.                                             *)
(***************************************************************************)
Coords == {c * ONE : c \in -1..MaxCoord}

Points == Coords \X Coords

Rotations == {0, 30, 90, 180, 270}

\* Non-zero scale factors: 0.5, 1, 2.
Scales == {ONE \div 2, ONE, 2 * ONE}

Translations == {<<0, 0>>, <<MaxCoord * ONE, -ONE>>}

Transforms ==
  [translation : Translations, rotation : Rotations, scale : Scales \X Scales,
   origin : Points]

\* lib.rs 82-93: the rotated rectangle start() spawns, and its corners.
StartRectTransform ==
  [translation |-> <<200 * ONE, 200 * ONE>>, rotation |-> 30,
   scale |-> <<ONE, ONE>>, origin |-> <<100 * ONE, 100 * ONE>>]

StartRectCorners ==
  {<<0, 0>>, <<200 * ONE, 0>>, <<200 * ONE, 200 * ONE>>, <<0, 200 * ONE>>}

XformInit ==
  /\ xf_transform \in Transforms \cup {StartRectTransform}
  /\ xf_point \in {<<0, 0>>, <<ONE, 0>>, <<MaxCoord * ONE, -ONE>>}
                   \cup {xf_transform.origin}
                   \cup (IF xf_transform = StartRectTransform
                         THEN StartRectCorners ELSE {})
  /\ xf_world = <<0, 0>>
  /\ xf_back = <<0, 0>>
  /\ xf_pc = "local"

XformIdle ==
  /\ xf_transform = TransformDefault
  /\ xf_point = <<0, 0>>
  /\ xf_world = <<0, 0>>
  /\ xf_back = <<0, 0>>
  /\ xf_pc = "local"

ApplyForward ==
  /\ xf_pc = "local"
  /\ xf_world' = TransformPoint(compute_transformation_matrix(xf_transform), xf_point)
  /\ xf_pc' = "world"
  /\ UNCHANGED <<xf_transform, xf_point, xf_back>>
  /\ UNCHANGED notXform

ApplyInverse ==
  /\ xf_pc = "world"
  /\ xf_back' = TransformPoint(compute_inverse_transformation_matrix(xf_transform), xf_world)
  /\ xf_pc' = "back"
  /\ UNCHANGED <<xf_transform, xf_point, xf_world>>
  /\ UNCHANGED notXform

XformNext ==
  \/ ApplyForward
  \/ ApplyInverse

(***************************************************************************)
(* lib.rs 285-319 on frames near the 16-bit limit.  A cached mesh is       *)
(* summarised by its vertex count and by the least and greatest index it   *)
(* holds (0 and n_vertices - 1); the frame by its vertex count and, for    *)
(* each index pushed, the pair it came from, its local value, the vertex   *)
(* count when that pair's append started and the u16 written.              *)
(***************************************************************************)
MeshSummary(n) == [n_vertices |-> n, indices |-> <<0, n - 1>>]

\* Vertex counts of cached meshes: a rectangle, a rectangle with outline,
\* and meshes of 30000, 32768 and 65535 vertices.
MeshSizes == {4, 12, 30000, U16Modulus \div 2, U16Max}

CapWorlds == SeqsUpTo({MeshSummary(n) : n \in MeshSizes}, MaxCapShapes) \ {<<>>}

RECURSIVE AssembleCountsNoOffset(_, _, _)
AssembleCountsNoOffset(w, k, frame) ==
  IF k > Len(w) THEN frame
  ELSE AssembleCountsNoOffset(w, k + 1,
         [frame EXCEPT !.n_vertices = frame.n_vertices + w[k].n_vertices,
                       !.indices = frame.indices \o
                         [j \in 1..Len(w[k].indices) |->
                            [pair |-> k, local |-> w[k].indices[j],
                             start |-> frame.n_vertices,
                             written |-> w[k].indices[j]]]])

RECURSIVE AssembleCounts(_, _, _)
AssembleCounts(w, k, frame) ==
  IF k > Len(w) \/ frame.panicked THEN frame
  ELSE LET start == frame.n_vertices
           index_offset == AsU16(start)
           local == w[k].indices
           pushed == [j \in 1..Len(local) |->
                       [pair |-> k, local |-> local[j], start |-> start,
                        written |-> AsU16(index_offset + local[j])]]
           overflows == {j \in 1..Len(local) : index_offset + local[j] > U16Max}
       IN IF overflows # {} /\ overflow_checks
            THEN [frame EXCEPT !.n_vertices = start + w[k].n_vertices,
                               !.indices = frame.indices \o
                                 SubSeq(pushed, 1, (CHOOSE j \in overflows :
                                   \A o \in overflows : j <= o) - 1),
                               !.panicked = TRUE]
            ELSE AssembleCounts(w, k + 1,
                   [frame EXCEPT !.n_vertices = start + w[k].n_vertices,
                                 !.indices = frame.indices \o pushed])

CapInit ==
  /\ cap_world \in CapWorlds
  /\ cap_vertices_len = 0
  /\ cap_indices = <<>>
  /\ cap_result = "pending"

CapIdle ==
  /\ cap_world = <<MeshSummary(4)>>
  /\ cap_vertices_len = 0
  /\ cap_indices = <<>>
  /\ cap_result = "pending"

\* One frame is assembled from the world.
AssembleLargeFrame ==
  /\ cap_result = "pending"
  /\ LET frame == AssembleCounts(cap_world, 1,
                    [n_vertices |-> 0, indices |-> <<>>, panicked |-> FALSE])
     IN /\ cap_vertices_len' = frame.n_vertices
        /\ cap_indices' = frame.indices
        /\ cap_result' = IF frame.panicked THEN "panicked" ELSE "frame"
  /\ UNCHANGED cap_world
  /\ UNCHANGED notCap

CapNext == AssembleLargeFrame

(***************************************************************************)
(* input.rs 42-55: mouse_in_world.  Positions and sizes are in pixels      *)
(* scaled by ONE.  A Vec2 whose components are not finite numbers carries  *)
(* is_nan.                                                                 *)
(***************************************************************************)
\* camera.get_view(): look_at_lh from (0, 0, -1) to the origin, up = Y.
CameraGetView == Mat4FromTranslation(0, 0, ONE)

CameraGetViewInverse == Mat4FromTranslation(0, 0, -ONE)

\* camera.get_projection().inverse() of an orthographic projection.
ProjectionInverse(proj) ==
  << <<((proj.right - proj.left) * ONE) \div 2, 0, 0,
       ((proj.right + proj.left) * ONE) \div 2>>,
     <<0, ((proj.top - proj.bottom) * ONE) \div 2, 0,
       ((proj.top + proj.bottom) * ONE) \div 2>>,
     <<0, 0, (proj.far - proj.near) * ONE, proj.near * ONE>>,
     <<0, 0, 0, ONE>> >>

NaNVec2 == [position |-> <<0, 0>>, is_nan |-> TRUE]

\* A zero width or height divides by zero: the projection has no inverse
\* and every component of the result is NaN.
mouse_in_world(viewport_position, cam) ==
  IF cam.width = 0 \/ cam.height = 0
  THEN NaNVec2
  ELSE LET ndc_x == 2 * FDiv(viewport_position[1] * ONE, cam.width * ONE) - ONE
           ndc_y == -(2 * FDiv(viewport_position[2] * ONE, cam.height * ONE) - ONE)
           mouse_position ==
             Mat4MulVec4(Mat4Mul(CameraGetViewInverse, ProjectionInverse(cam.projection)),
                         <<ndc_x, ndc_y, ONE, ONE>>)
       IN [position |-> <<mouse_position[1], mouse_position[2]>>, is_nan |-> FALSE]

(***************************************************************************)
(* examples/geometry_wars/main.rs and examples/geometry/main.rs: the       *)
(* games' on_create and on_update callbacks.  Of the entities only the     *)
(* player's Input component is kept.                                       *)
(***************************************************************************)
MaxGameUpdates == 3

\* Mouse positions the window reports; None is read as (0, 0).
MousePositions == {<<0, 0>>, <<256, 144>>, <<512, 288>>, <<1024, 576>>}

GameCameras == {CameraNew(size[1], size[2]) : size \in WindowSizes}

InputDefault ==
  [mouse_screen_position |-> <<0, 0>>,
   mouse_world_position |-> [position |-> <<0, 0>>, is_nan |-> FALSE]]

\* #[derive(Default)] struct GeometryWars.
GeometryWarsDefault ==
  [running |-> FALSE, paused |-> FALSE, running_time |-> 0,
   player_alive |-> FALSE, input |-> InputDefault]

GeometryWars_on_create(g) ==
  [g EXCEPT !.running = TRUE, !.player_alive = FALSE, !.input = InputDefault]

system_user_input_stateless(g, in) ==
  LET toggled == IF in.p THEN ~g.paused ELSE g.paused
  IN [g EXCEPT !.running = ~(in.quit \/ in.escape),
               !.paused = toggled,
               !.input = IF ~toggled /\ g.player_alive
                         THEN [mouse_screen_position |-> in.mouse,
                               mouse_world_position |-> mouse_in_world(in.mouse, in.camera)]
                         ELSE @]

system_user_input(g, in) ==
  LET toggled == IF in.p THEN ~g.paused ELSE g.paused
  IN [g EXCEPT !.running = IF in.quit \/ in.escape THEN FALSE ELSE @,
               !.paused = toggled,
               !.input = IF ~toggled /\ g.player_alive
                         THEN [mouse_screen_position |-> in.mouse,
                               mouse_world_position |-> mouse_in_world(in.mouse, in.camera)]
                         ELSE @]

\* The systems that run while the game is not paused: the player is spawned
\* when there is none, a collision takes its health and the dead are removed.
GeometryWars_systems(g, in) ==
  IF g.paused
  THEN g
  ELSE [g EXCEPT !.player_alive = ~in.collision,
                 !.input = IF g.player_alive THEN @ ELSE InputDefault,
                 !.running_time = @ + FIXED_STEP]

GeometryWars_on_update(g, in) ==
  LET after == GeometryWars_systems(system_user_input(g, in), in)
  IN [game |-> after, returned |-> after.running]

Geometry_on_update(in) == ~in.quit /\ ~in.escape

GameInputs ==
  [quit : BOOLEAN, escape : BOOLEAN, p : BOOLEAN, collision : BOOLEAN,
   mouse : MousePositions, camera : GameCameras]

NoInput ==
  [quit |-> FALSE, escape |-> FALSE, p |-> FALSE, collision |-> FALSE,
   mouse |-> <<0, 0>>, camera |-> CameraNew(DEFAULT_WINDOW_WIDTH, DEFAULT_WINDOW_HEIGHT),
   returned |-> TRUE, geometry_returned |-> TRUE]

GameInit ==
  /\ game = GeometryWarsDefault
  /\ game_pc = "constructed"
  /\ game_updates = 0
  /\ game_last = NoInput
  /\ quit_seen = FALSE

GameIdle == GameInit

OnCreate ==
  /\ game_pc = "constructed"
  /\ game' = GeometryWars_on_create(game)
  /\ game_pc' = "created"
  /\ UNCHANGED <<game_updates, game_last, quit_seen>>
  /\ UNCHANGED notGame

\* One fixed update: both games' on_update are given the same input.
OnUpdate ==
  /\ game_pc = "created"
  /\ game_updates < MaxGameUpdates
  /\ \E in \in GameInputs :
       \E r \in {GeometryWars_on_update(game, in)} :
         /\ game' = r.game
         /\ game_last' = [quit |-> in.quit, escape |-> in.escape, p |-> in.p,
                          collision |-> in.collision, mouse |-> in.mouse,
                          camera |-> in.camera, returned |-> r.returned,
                          geometry_returned |-> Geometry_on_update(in)]
         /\ quit_seen' = (quit_seen \/ in.quit \/ in.escape)
  /\ game_updates' = game_updates + 1
  /\ UNCHANGED game_pc
  /\ UNCHANGED notGame

GameNext == OnCreate \/ OnUpdate

(***************************************************************************)
(* renderer.rs 196-215, 470-472, 572-585: Scene and Renderer::draw_shape.  *)
(* A slot of the primitives buffer holds "default", or "stroke" or "fill"  *)
(* once a shape has written its stroke or fill primitive there.  A failed  *)
(* assertion and an index out of the buffer's bounds both panic.           *)
(***************************************************************************)
GEOMETRY_PRIMITIVES_BUFFER_LEN == 256

\* Scene::new(camera)
SceneNew ==
  [geometry_primitives |-> [slot \in 0..(GEOMETRY_PRIMITIVES_BUFFER_LEN - 1) |-> "default"],
   geometry_rect_instances |-> 0, pc |-> "open"]

draw_shape_asserting_last_slot(scene) ==
  LET primitive_id == scene.geometry_rect_instances * 2
  IN IF ~(primitive_id <= GEOMETRY_PRIMITIVES_BUFFER_LEN - 1)
       THEN [scene EXCEPT !.pc = "assertion failed"]
     ELSE IF primitive_id + 1 >= GEOMETRY_PRIMITIVES_BUFFER_LEN
       THEN [scene EXCEPT !.pc = "index out of bounds"]
     ELSE [scene EXCEPT !.geometry_primitives[primitive_id] = "stroke",
                        !.geometry_primitives[primitive_id + 1] = "fill",
                        !.geometry_rect_instances = @ + 1]

draw_shape(scene) ==
  LET primitive_id == scene.geometry_rect_instances * 2
  IN IF ~(primitive_id <= GEOMETRY_PRIMITIVES_BUFFER_LEN - 3)
       THEN [scene EXCEPT !.pc = "assertion failed"]
     ELSE IF primitive_id + 1 >= GEOMETRY_PRIMITIVES_BUFFER_LEN
       THEN [scene EXCEPT !.pc = "index out of bounds"]
     ELSE [scene EXCEPT !.geometry_primitives[primitive_id] = "stroke",
                        !.geometry_primitives[primitive_id + 1] = "fill",
                        !.geometry_rect_instances = @ + 1]

SceneInit ==
  /\ scene_primitives = SceneNew.geometry_primitives
  /\ geometry_rect_instances = SceneNew.geometry_rect_instances
  /\ scene_pc = SceneNew.pc

SceneIdle == SceneInit

\* renderer.begin_scene(camera): a new Scene replaces the one before.
BeginScene ==
  /\ scene_pc = "open"
  /\ geometry_rect_instances > 0
  /\ scene_primitives' = SceneNew.geometry_primitives
  /\ geometry_rect_instances' = SceneNew.geometry_rect_instances
  /\ UNCHANGED scene_pc
  /\ UNCHANGED notScene

\* renderer.draw_shape(&mut scene, &shape)
DrawShape ==
  /\ scene_pc = "open"
  /\ \E after \in {draw_shape([geometry_primitives |-> scene_primitives,
                              geometry_rect_instances |-> geometry_rect_instances,
                              pc |-> scene_pc])} :
       /\ scene_primitives' = after.geometry_primitives
       /\ geometry_rect_instances' = after.geometry_rect_instances
       /\ scene_pc' = after.pc
  /\ UNCHANGED notScene

SceneNext == BeginScene \/ DrawShape

(***************************************************************************)
(* examples/geometry_wars/main.rs: the entity world of GeometryWars and    *)
(* the systems on_update runs over it.  Lengths are in tenths of a pixel,  *)
(* velocities in pixels per second, durations in milliseconds, rotations   *)
(* in thousandths of a degree.  An Option component is a sequence: <<>> is *)
(* None and <<c>> is Some(c).  An entity's parent and the world's events   *)
(* are not program state: parent is the id of the enemy a small enemy was  *)
(* built from, events records what the running update has done.            *)
(***************************************************************************)
MaxWarsUpdates == 3

Px(n) == 10 * n

None == <<>>

Some(c) == <<c>>

IsSome(o) == Len(o) > 0

\* WindowConfig.size as ctx.window_size() reports it.
WarsWindowSize == <<Px(1280), Px(720)>>

PlayerConfig ==
  [shape_radius |-> 32, collision_radius |-> 32, speed |-> 250, vertices |-> 8]

EnemyConfig ==
  [shape_radius |-> 32, collision_radius |-> 32, min_speed |-> 150, max_speed |-> 250,
   min_vertices |-> 3, max_vertices |-> 8, small_lifespan |-> 1500,
   spawn_interval |-> 2000]

BulletConfig ==
  [shape_radius |-> 10, collision_radius |-> 10, speed |-> 800, vertices |-> 20,
   lifespan |-> 1500]

\* #[derive(Default)] struct Input, without mouse_screen_position.
InputComponentDefault ==
  [up |-> FALSE, down |-> FALSE, left |-> FALSE, right |-> FALSE,
   left_button |-> FALSE, right_button |-> FALSE, mouse_world_position |-> <<0, 0>>]

NoEvents ==
  [player_spawned |-> FALSE, colliding |-> {}, enemies_hit |-> {}, spawned |-> {},
   removed |-> {}]

\* #[derive(Default)] struct GeometryWars with an empty hecs World.
GeometryWarsWorldDefault ==
  [running |-> FALSE, paused |-> FALSE, running_time |-> 0, score |-> 0,
   last_enemy_spawn_time |-> 0, last_special_weapon_spawn_time |-> 0,
   entities |-> {}, next_id |-> 1, events |-> NoEvents]

GeometryWarsWorld_on_create(w) ==
  [w EXCEPT !.entities = {}, !.next_id = 1, !.running = TRUE]

\* World::spawn: the entity gets an id no other entity has.
world_spawn(w, bundle) ==
  [w EXCEPT !.entities = @ \cup {[bundle EXCEPT !.id = w.next_id]},
            !.next_id = @ + 1,
            !.events.spawned = @ \cup {w.next_id}]

RECURSIVE spawn_all(_, _)
spawn_all(w, to_spawn) ==
  IF to_spawn = <<>> THEN w
  ELSE spawn_all(world_spawn(w, Head(to_spawn)), Tail(to_spawn))

\* The order in which a query visits the entities.
RECURSIVE EntitiesById(_)
EntitiesById(S) ==
  IF S = {} THEN <<>>
  ELSE LET first == CHOOSE e \in S : \A other \in S : e.id <= other.id
       IN <<first>> \o EntitiesById(S \ {first})

RECURSIVE ISqrtBetween(_, _, _)
ISqrtBetween(n, lo, hi) ==
  IF lo >= hi THEN lo
  ELSE LET mid == (lo + hi + 1) \div 2
       IN IF mid * mid <= n THEN ISqrtBetween(n, mid, hi)
          ELSE ISqrtBetween(n, lo, mid - 1)

\* Vec2::normalize_or_zero, the result scaled by ONE.
normalize_or_zero(v) ==
  LET length == ISqrtBetween(v[1] * v[1] + v[2] * v[2], 0, 32768)
  IN IF length = 0 THEN <<0, 0>> ELSE <<FDiv(v[1], length), FDiv(v[2], length)>>

\* The distance covered in dt at a velocity.
Travel(velocity, dt) == RoundDiv(velocity * dt, 100)

build_player(window_size, player_config) ==
  [id |-> 0, parent |-> 0, tag |-> "player",
   translation |-> <<window_size[1] \div 2, window_size[2] \div 2>>,
   rotation |-> 0,
   velocity |-> <<player_config.speed, player_config.speed>>,
   radius |-> Px(player_config.shape_radius),
   collider |-> Px(player_config.collision_radius),
   point_count |-> player_config.vertices,
   lifespan |-> None, health |-> Some(1), score |-> None,
   input |-> Some(InputComponentDefault)]

\* The values thread_rng() gives build_enemy: a position inside the window,
\* a vertex count of min_vertices..=max_vertices and a velocity whose
\* components lie in min_speed..=max_speed, either way round.
EnemySamples ==
  {[position |-> <<Px(715), Px(360)>>, vertex_count |-> 3, velocity |-> <<-150, 150>>],
   [position |-> <<Px(680), Px(360)>>, vertex_count |-> 4, velocity |-> <<250, -250>>]}

build_enemy(rng, enemy_config) ==
  [id |-> 0, parent |-> 0, tag |-> "enemy",
   translation |-> rng.position,
   rotation |-> 0,
   velocity |-> rng.velocity,
   radius |-> Px(enemy_config.shape_radius),
   collider |-> Px(enemy_config.collision_radius),
   point_count |-> rng.vertex_count,
   lifespan |-> None, health |-> Some(1), score |-> Some(rng.vertex_count * 100),
   input |-> None]

build_small_enemies_one_short(parent, lifespan) ==
  [i \in 1..(parent.point_count - 1) |->
     LET angle == (360 * (i - 1)) \div parent.point_count
     IN [id |-> 0, parent |-> parent.id, tag |-> "small_enemy",
         translation |-> parent.translation,
         rotation |-> 0,
         velocity |-> <<FMul(Abs(parent.velocity[1]), CosDeg(angle)),
                        FMul(Abs(parent.velocity[2]), SinDeg(angle))>>,
         radius |-> parent.radius \div 2,
         collider |-> parent.radius \div 2,
         point_count |-> parent.point_count,
         lifespan |-> Some(lifespan), health |-> None,
         score |-> Some(parent.score[1] * 2),
         input |-> None]]

build_small_enemies(parent, lifespan) ==
  [i \in 1..parent.point_count |->
     LET angle == (360 * (i - 1)) \div parent.point_count
     IN [id |-> 0, parent |-> parent.id, tag |-> "small_enemy",
         translation |-> parent.translation,
         rotation |-> 0,
         velocity |-> <<FMul(Abs(parent.velocity[1]), CosDeg(angle)),
                        FMul(Abs(parent.velocity[2]), SinDeg(angle))>>,
         radius |-> parent.radius \div 2,
         collider |-> parent.radius \div 2,
         point_count |-> parent.point_count,
         lifespan |-> Some(lifespan), health |-> None,
         score |-> Some(parent.score[1] * 2),
         input |-> None]]

build_bullet(from, to, bullet_config) ==
  LET bullet_direction == normalize_or_zero(<<to[1] - from[1], to[2] - from[2]>>)
  IN [id |-> 0, parent |-> 0, tag |-> "bullet",
      translation |-> from,
      rotation |-> 0,
      velocity |-> <<FMul(bullet_config.speed, bullet_direction[1]),
                     FMul(bullet_config.speed, bullet_direction[2])>>,
      radius |-> Px(bullet_config.shape_radius),
      collider |-> Px(bullet_config.collision_radius),
      point_count |-> bullet_config.vertices,
      lifespan |-> Some(bullet_config.lifespan), health |-> None, score |-> None,
      input |-> None]

build_special_weapon(parent) ==
  [i \in 1..18 |->
     LET angle == (360 * (i - 1)) \div 18
     IN [id |-> 0, parent |-> 0, tag |-> "special_weapon",
         translation |-> parent.translation,
         rotation |-> 0,
         velocity |-> <<FMul(2500, CosDeg(angle)), FMul(2500, SinDeg(angle))>>,
         radius |-> parent.radius \div 2,
         collider |-> parent.radius \div 2,
         point_count |-> 18,
         lifespan |-> Some(1500), health |-> None, score |-> None,
         input |-> None]]

\* What the InputHelper reports in one update.
WarsQuiet ==
  [quit |-> FALSE, escape |-> FALSE, p |-> FALSE, key_pressed |-> {},
   key_released |-> {}, mouse_pressed |-> {},
   mouse_world |-> <<Px(1280), Px(360)>>]

WarsUserInputs ==
  {WarsQuiet,
   [WarsQuiet EXCEPT !.quit = TRUE],
   [WarsQuiet EXCEPT !.escape = TRUE],
   [WarsQuiet EXCEPT !.p = TRUE],
   [WarsQuiet EXCEPT !.key_pressed = {"D"}],
   [WarsQuiet EXCEPT !.key_released = {"D"}],
   [WarsQuiet EXCEPT !.key_pressed = {"W", "A"}],
   [WarsQuiet EXCEPT !.mouse_pressed = {"Left"}],
   [WarsQuiet EXCEPT !.mouse_pressed = {"Left"}, !.mouse_world = <<Px(640), Px(360)>>],
   [WarsQuiet EXCEPT !.mouse_pressed = {"Right"}]}

\* The dt on_update is called with.
WarsSteps == {FIXED_STEP, 50, 10500}

GeometryWars_system_user_input_ignoring_pause(w, in) ==
  LET paused == IF in.p THEN ~w.paused ELSE w.paused
      held(was, key) == IF key \in in.key_released THEN FALSE
                        ELSE IF key \in in.key_pressed THEN TRUE
                        ELSE was
      written(input) ==
        [up |-> held(input.up, "W"), left |-> held(input.left, "A"),
         down |-> held(input.down, "S"), right |-> held(input.right, "D"),
         left_button |-> "Left" \in in.mouse_pressed,
         right_button |-> "Right" \in in.mouse_pressed,
         mouse_world_position |-> in.mouse_world]
  IN [w EXCEPT !.running = IF in.quit \/ in.escape THEN FALSE ELSE @,
               !.paused = paused,
               !.entities = {IF IsSome(e.input)
                             THEN [e EXCEPT !.input = Some(written(e.input[1]))]
                             ELSE e : e \in @}]

GeometryWars_system_user_input(w, in) ==
  LET paused == IF in.p THEN ~w.paused ELSE w.paused
      held(was, key) == IF key \in in.key_released THEN FALSE
                        ELSE IF key \in in.key_pressed THEN TRUE
                        ELSE was
      written(input) ==
        [up |-> held(input.up, "W"), left |-> held(input.left, "A"),
         down |-> held(input.down, "S"), right |-> held(input.right, "D"),
         left_button |-> "Left" \in in.mouse_pressed,
         right_button |-> "Right" \in in.mouse_pressed,
         mouse_world_position |-> in.mouse_world]
  IN [w EXCEPT !.running = IF in.quit \/ in.escape THEN FALSE ELSE @,
               !.paused = paused,
               !.entities = IF paused THEN @
                            ELSE {IF IsSome(e.input)
                                  THEN [e EXCEPT !.input = Some(written(e.input[1]))]
                                  ELSE e : e \in @}]

system_player_spawner_unconditional(w, window_size) ==
  [world_spawn(w, build_player(window_size, PlayerConfig))
     EXCEPT !.events.player_spawned = TRUE]

system_player_spawner(w, window_size) ==
  LET alive == \E e \in w.entities : IsSome(e.input)
  IN IF ~alive
     THEN [world_spawn(w, build_player(window_size, PlayerConfig))
             EXCEPT !.events.player_spawned = TRUE]
     ELSE w

EnemySpawnDue(w) ==
  w.last_enemy_spawn_time + EnemyConfig.spawn_interval < w.running_time

system_enemy_spawner(w, rng) ==
  IF EnemySpawnDue(w)
  THEN [world_spawn(w, build_enemy(rng, EnemyConfig))
          EXCEPT !.last_enemy_spawn_time = w.running_time]
  ELSE w

system_bullet_spawner(w) ==
  LET firing == EntitiesById({e \in w.entities : IsSome(e.input) /\ e.input[1].left_button})
      to_spawn == [i \in 1..Len(firing) |->
                     build_bullet(firing[i].translation,
                                  firing[i].input[1].mouse_world_position, BulletConfig)]
  IN spawn_all(w, to_spawn)

system_special_weapon_spawner(w) ==
  LET respawn_interval == 10000
      firing == EntitiesById({e \in w.entities :
                                IsSome(e.input) /\ e.input[1].right_button})
  IN IF firing # <<>> /\ w.last_special_weapon_spawn_time + respawn_interval < w.running_time
     THEN [spawn_all(w, build_special_weapon(firing[1]))
             EXCEPT !.last_special_weapon_spawn_time = w.running_time]
     ELSE w

\* One axis of the player's move: the position is clamped to the window.
ClampAxis(pos, radius, size) ==
  LET low == IF pos - radius < 0 THEN radius ELSE pos
  IN IF low + radius > size THEN size - radius ELSE low

\* One axis of any other entity's move: it bounces off the window's edge.
BounceAxis(pos, velocity, radius, size) ==
  LET low == IF pos - radius < 0
             THEN [pos |-> radius, velocity |-> -velocity]
             ELSE [pos |-> pos, velocity |-> velocity]
  IN IF low.pos + radius > size
     THEN [pos |-> size - radius, velocity |-> -low.velocity]
     ELSE low

moved(e, window_size, dt) ==
  IF IsSome(e.input)
  THEN LET input == e.input[1]
           move_dir == normalize_or_zero(
                         <<(IF input.right THEN 1 ELSE 0) - (IF input.left THEN 1 ELSE 0),
                           (IF input.up THEN 1 ELSE 0) - (IF input.down THEN 1 ELSE 0)>>)
           x == e.translation[1] + Travel(FMul(move_dir[1], e.velocity[1]), dt)
           y == e.translation[2] + Travel(FMul(move_dir[2], e.velocity[2]), dt)
       IN [e EXCEPT !.translation = <<ClampAxis(x, e.radius, window_size[1]),
                                      ClampAxis(y, e.radius, window_size[2])>>]
  ELSE LET x == BounceAxis(e.translation[1] + Travel(e.velocity[1], dt),
                           e.velocity[1], e.radius, window_size[1])
           y == BounceAxis(e.translation[2] + Travel(e.velocity[2], dt),
                           e.velocity[2], e.radius, window_size[2])
       IN [e EXCEPT !.translation = <<x.pos, y.pos>>,
                    !.velocity = <<x.velocity, y.velocity>>]

system_movement(w, window_size, dt) ==
  [w EXCEPT !.entities = {moved(e, window_size, dt) : e \in @}]

\* Duration::saturating_sub
saturating_sub(a, b) == IF a >= b THEN a - b ELSE 0

system_lifespan(w, dt) ==
  [w EXCEPT !.entities =
     {IF IsSome(e.lifespan) /\ e.tag \in {"small_enemy", "bullet", "special_weapon"}
      THEN [e EXCEPT !.lifespan = Some(saturating_sub(e.lifespan[1], dt))]
      ELSE e : e \in @}]

check_collision(a, b) ==
  LET distance == <<a.translation[1] - b.translation[1],
                    a.translation[2] - b.translation[2]>>
      actual_distance == distance[1] * distance[1] + distance[2] * distance[2]
      min_distance == a.collider * a.collider + b.collider * b.collider
  IN actual_distance <= min_distance

Colliding(entities) ==
  LET tagged(t) == {e \in entities : e.tag = t}
      players == tagged("player")
      enemies == tagged("enemy") \cup tagged("small_enemy")
      weapons == tagged("bullet") \cup tagged("special_weapon")
      pairs == {pair \in (players \cup weapons) \X enemies :
                  check_collision(pair[1], pair[2])}
  IN {pair[1].id : pair \in pairs} \cup {pair[2].id : pair \in pairs}

RECURSIVE SumOfScores(_)
SumOfScores(S) ==
  IF S = {} THEN 0
  ELSE LET e == CHOOSE x \in S : TRUE
       IN (IF IsSome(e.score) THEN e.score[1] ELSE 0) + SumOfScores(S \ {e})

system_collision(w) ==
  LET colliding == Colliding(w.entities)
      hit == {e \in w.entities : e.id \in colliding}
  IN [w EXCEPT !.entities =
                 {IF e \in hit
                  THEN [e EXCEPT !.lifespan = IF IsSome(@) THEN Some(0) ELSE @,
                                 !.health = IF IsSome(@) THEN Some(0) ELSE @]
                  ELSE e : e \in @},
               !.score = @ + SumOfScores(hit),
               !.events.colliding = colliding,
               !.events.enemies_hit = {e \in hit : e.tag = "enemy"}]

RECURSIVE Concat(_)
Concat(seqs) == IF seqs = <<>> THEN <<>> ELSE Head(seqs) \o Concat(Tail(seqs))

system_small_enemy_spawner(w) ==
  LET parents == EntitiesById({e \in w.entities :
                                 /\ IsSome(e.health) /\ IsSome(e.score)
                                 /\ e.tag = "enemy" /\ e.health[1] <= 0})
      to_spawn == Concat([i \in 1..Len(parents) |->
                            build_small_enemies(parents[i], EnemyConfig.small_lifespan)])
  IN spawn_all(w, to_spawn)

system_rotate_visible_entities(w, dt) ==
  [w EXCEPT !.entities = {[e EXCEPT !.rotation = @ + 60 * dt] : e \in @}]

system_remove_dead_entities_by_lifespan_only(w) ==
  LET to_remove == {e \in w.entities : IsSome(e.lifespan) /\ e.lifespan[1] <= 0}
  IN [w EXCEPT !.entities = @ \ to_remove,
               !.events.removed = {e.id : e \in to_remove}]

system_remove_dead_entities(w) ==
  LET to_remove == {e \in w.entities :
                      \/ IsSome(e.lifespan) /\ e.lifespan[1] <= 0
                      \/ IsSome(e.health) /\ e.health[1] <= 0}
  IN [w EXCEPT !.entities = @ \ to_remove,
               !.events.removed = {e.id : e \in to_remove}]

WarsNoInput == [input |-> WarsQuiet, dt |-> 0]

WarsInit ==
  /\ wars = GeometryWarsWorldDefault
  /\ wars_pc = "constructed"
  /\ wars_updates = 0
  /\ wars_last = WarsNoInput

WarsIdle == WarsInit

WarsOnCreate ==
  /\ wars_pc = "constructed"
  /\ wars' = GeometryWarsWorld_on_create(wars)
  /\ wars_pc' = "created"
  /\ UNCHANGED <<wars_updates, wars_last>>
  /\ UNCHANGED notWars

\* GeometryWars::on_update: the systems in the order the code calls them.
WarsOnUpdate ==
  /\ wars_pc = "created"
  /\ wars_updates < MaxWarsUpdates
  /\ \E in \in WarsUserInputs, dt \in WarsSteps :
     \E input_read \in {GeometryWars_system_user_input([wars EXCEPT !.events = NoEvents], in)} :
     \E rng \in (IF ~input_read.paused /\ EnemySpawnDue(input_read)
                 THEN EnemySamples ELSE {CHOOSE sample \in EnemySamples : TRUE}) :
     \E player_spawned \in {IF input_read.paused THEN input_read
                            ELSE system_player_spawner(input_read, WarsWindowSize)} :
     \E enemy_spawned \in {IF input_read.paused THEN player_spawned
                           ELSE system_enemy_spawner(player_spawned, rng)} :
     \E bullet_spawned \in {IF input_read.paused THEN enemy_spawned
                            ELSE system_bullet_spawner(enemy_spawned)} :
     \E weapon_spawned \in {IF input_read.paused THEN bullet_spawned
                            ELSE system_special_weapon_spawner(bullet_spawned)} :
     \E after_movement \in {IF input_read.paused THEN weapon_spawned
                            ELSE system_movement(weapon_spawned, WarsWindowSize, dt)} :
     \E after_lifespan \in {IF input_read.paused THEN after_movement
                            ELSE system_lifespan(after_movement, dt)} :
     \E after_collision \in {IF input_read.paused THEN after_lifespan
                             ELSE system_collision(after_lifespan)} :
     \E small_spawned \in {IF input_read.paused THEN after_collision
                           ELSE system_small_enemy_spawner(after_collision)} :
     \E timed \in {IF input_read.paused THEN small_spawned
                   ELSE [small_spawned EXCEPT !.running_time = @ + dt]} :
     \E rotated \in {system_rotate_visible_entities(timed, dt)} :
       /\ wars' = system_remove_dead_entities(rotated)
       /\ wars_last' = [input |-> in, dt |-> dt]
  /\ wars_updates' = wars_updates + 1
  /\ UNCHANGED wars_pc
  /\ UNCHANGED notWars

WarsNext == WarsOnCreate \/ WarsOnUpdate

(***************************************************************************)
(* Specifications.  Each runs one part of the program and leaves the       *)
(* others at rest.                                                         *)
(***************************************************************************)
ClockIdle == ClockInit

Init ==
  /\ LoopInit /\ overflow_checks \in BOOLEAN
  /\ ShapeIdle /\ ClockIdle /\ XformIdle /\ CapIdle /\ GameIdle
  /\ SceneIdle
  /\ WarsIdle

\* The event loop of start().
Spec == Init /\ [][LoopNext]_vars

InitShape ==
  /\ ShapeInit
  /\ LoopIdle /\ overflow_checks = TRUE /\ ClockIdle /\ XformIdle /\ CapIdle /\ GameIdle
  /\ SceneIdle
  /\ WarsIdle

\* A shape whose fields are set and whose update() is called.
SpecShape == InitShape /\ [][ShapeNext]_vars

InitClock ==
  /\ ClockInit
  /\ ShapeIdle /\ LoopIdle /\ overflow_checks = TRUE /\ XformIdle /\ CapIdle /\ GameIdle
  /\ SceneIdle
  /\ WarsIdle

\* The simulation clock.
SpecClock == InitClock /\ [][ClockNext]_vars

InitXform ==
  /\ XformInit
  /\ ShapeIdle /\ LoopIdle /\ overflow_checks = TRUE /\ ClockIdle /\ CapIdle /\ GameIdle
  /\ SceneIdle
  /\ WarsIdle

\* The transformation matrices applied to a point.
SpecXform == InitXform /\ [][XformNext]_vars

InitCap ==
  /\ CapInit /\ overflow_checks \in BOOLEAN
  /\ ShapeIdle /\ LoopIdle /\ ClockIdle /\ XformIdle /\ GameIdle
  /\ SceneIdle
  /\ WarsIdle

\* Frame assembly near the 16-bit index limit.
SpecCap == InitCap /\ [][CapNext]_vars

InitGame ==
  /\ GameInit
  /\ ShapeIdle /\ LoopIdle /\ overflow_checks = TRUE /\ ClockIdle /\ XformIdle
  /\ CapIdle
  /\ SceneIdle
  /\ WarsIdle

\* The games' callbacks, called once per fixed update.
SpecGame == InitGame /\ [][GameNext]_vars

InitScene ==
  /\ SceneInit
  /\ ShapeIdle /\ LoopIdle /\ overflow_checks = TRUE /\ ClockIdle /\ XformIdle
  /\ CapIdle /\ GameIdle
  /\ WarsIdle

\* The shapes drawn into one scene after another.
SpecScene == InitScene /\ [][SceneNext]_vars

InitWars ==
  /\ WarsInit
  /\ ShapeIdle /\ LoopIdle /\ overflow_checks = TRUE /\ ClockIdle /\ XformIdle
  /\ CapIdle /\ GameIdle /\ SceneIdle

\* The entity world of GeometryWars, updated call after call.
SpecWars == InitWars /\ [][WarsNext]_vars

(***************************************************************************)
(* Properties.                                                             *)
(***************************************************************************)

\* The geometry one tessellation of the shape's current parameters produces.
FreshGeometry(s) == GeometryUpdate([s EXCEPT !.geometry = VertexBuffersNew]).geometry

\* C1: for every shape type (a polygon with point_count >= 3), after any
\* sequence of update() calls the cache holds exactly the vertices and
\* indices of one tessellation of the shape's current parameters.
C1_UpdateOverwritesCache ==
  (/\ shape_last = "update"
   /\ shape_pc = "live"
   /\ (shape.kind = "Polygon" => shape.point_count >= 3))
    => shape.geometry = FreshGeometry(shape)

RECURSIVE VerticesBefore(_, _)
VerticesBefore(w, k) ==
  IF k <= 1 THEN 0 ELSE VerticesBefore(w, k - 1) + w[k - 1].n_vertices

\* The running vertex count or an offset index exceeds the u16 range.
CapOverflows ==
  \E k \in 1..Len(cap_world) :
    VerticesBefore(cap_world, k) + cap_world[k].n_vertices - 1 > U16Max

\* C2: when the running vertex count or an offset index would exceed 65535,
\* frame assembly ends in an explicit capacity error, and no value written
\* to the frame index buffer is a wrapped or truncated index.
C2_OverflowIsCapacityError ==
  cap_result # "pending" =>
    /\ CapOverflows => cap_result = "capacity_error"
    /\ \A j \in DOMAIN cap_indices :
         cap_indices[j].written = cap_indices[j].start + cap_indices[j].local

\* C3 as stated: in every platform frame at most 2 fixed updates run.
C3_AtMostTwoUpdatesPerFrame == frame_updates <= 2

\* C3: in every platform frame the fixed updates run are bounded by the
\* remainder carried into the frame plus the capped elapsed time: at most 3
\* updates, and at most 2 when the remainder carried in is under half a step.
C3_UpdatesBoundedByCarry ==
  /\ frame_updates * FIXED_STEP <= frame_start_accumulator + MAX_FRAME_TIME
  /\ frame_updates <= 3
  /\ 2 * frame_start_accumulator < FIXED_STEP => frame_updates <= 2

\* A platform frame in which 3 fixed updates ran.
C3_ThreeUpdatesInAFrame ==
  /\ clock_state = "render_ready"
  /\ frame_updates = 3
  /\ 2 * frame_start_accumulator >= FIXED_STEP

\* C4: every index in the frame index buffer is its cached local index plus
\* the number of vertices in the frame when its shape's append began.
C4_IndicesOffsetByRunningCount ==
  \A j \in DOMAIN cap_indices :
    /\ cap_indices[j].written = cap_indices[j].local + cap_indices[j].start
    /\ cap_indices[j].start = VerticesBefore(cap_world, cap_indices[j].pair)

\* C5: the local point equal to the pivot is mapped by the world matrix to
\* translation, whatever the rotation and the scale.
C5_PivotMapsToTranslation ==
  (xf_pc # "local" /\ xf_point = xf_transform.origin)
    => ClosePoint(xf_world, xf_transform.translation)

\* C6: for every transform with non-zero scale, the inverse matrix applied
\* to the forward image of a point returns the point.
C6_InverseRoundTrip ==
  xf_pc = "back" => ClosePoint(xf_back, xf_point)

\* C7: a callback presents at most one frame and only when its event is
\* RedrawRequested; the frames presented never outnumber the RedrawRequested
\* events received.
C7_PresentOnlyOnRedraw ==
  [][/\ n_presented' <= n_presented + 1
     /\ n_presented' # n_presented => n_redraw_requested' = n_redraw_requested + 1
     /\ n_presented' <= n_redraw_requested'
     /\ state_render' = FALSE]_vars

\* Two RedrawRequested events, of which one presented a frame and one was
\* skipped.
C7_FramePresented ==
  /\ n_redraw_requested = 2
  /\ n_presented = 1
  /\ frame_log = <<"assemble", "write_globals", "create_buffers", "copy", "pass",
                  "submit", "present">>

\* C8: whenever the clock is render-ready, 0 <= accumulator < fixed step;
\* the accumulator always equals the capped elapsed times added minus one
\* step per update run.
C8_AccumulatorInvariant ==
  /\ clock_state = "render_ready" => (0 <= accumulator /\ accumulator < FIXED_STEP)
  /\ accumulator = total_capped - total_updates * FIXED_STEP
  /\ accumulator >= 0

\* The clock render-ready after updates, with a remainder left.
C8_RenderReadyWithRemainder ==
  /\ clock_state = "render_ready"
  /\ total_updates >= 3
  /\ accumulator > 0
  /\ frames_started >= 2

\* C9: a tessellator error never panics update(); the cache ends up empty.
C9_TessErrorLeavesEmptyCache ==
  shape_tess_error =>
    /\ shape_pc = "live"
    /\ shape.geometry = VertexBuffersNew

\* C10: after update() of a polygon whose point_count is below 3, in any
\* prior state, the cache is empty.
C10_FewPointsLeaveEmptyCache ==
  (/\ shape_last = "update"
   /\ shape.kind = "Polygon"
   /\ shape.point_count < 3)
    => shape.geometry = VertexBuffersNew


\* What the fill tessellation alone appends to the cache of shape s: the
\* update of s with its outline_thickness set to zero.
FillOnlyGeometry(s) == GeometryUpdate([s EXCEPT !.outline_thickness = 0]).geometry

\* C11: an update() with outline_thickness <= 0 runs no stroke tessellation
\* and appends what the fill alone appends; for a LineShape it leaves the
\* cache as it was.
C11_NoOutlineWithoutThickness ==
  [][(shape_updates' = shape_updates + 1 /\ shape.outline_thickness <= 0)
       => /\ ~shape_stroked'
          /\ shape'.geometry = FillOnlyGeometry(shape)
          /\ shape.kind = "Line" => shape'.geometry = shape.geometry]_vars

\* A line with a length, fresh, updated with a negative outline_thickness:
\* nothing was stroked and its cache is empty.
C11_LineWithoutThicknessEmpty ==
  /\ shape_last = "update"
  /\ shape.kind = "Line"
  /\ shape.length > 0
  /\ shape.outline_thickness < 0
  /\ ~shape_stroked
  /\ shape.geometry = VertexBuffersNew

\* The colors the shape currently asks for.
CurrentColors(s) ==
  {s.outline_color} \cup (IF "fill_color" \in DOMAIN s THEN {s.fill_color} ELSE {})

\* C12: after an update(), every vertex in the cache carries the shape's
\* current fill_color or its current outline_color.
C12_ColorsAreCurrent ==
  (shape_last = "update" /\ shape_pc = "live")
    => \A j \in DOMAIN shape.geometry.vertices :
         shape.geometry.vertices[j].color \in CurrentColors(shape)


\* C13: the camera's projection is the orthographic projection of its stored
\* width and height (left 0, right width, bottom 0, top height, near -1,
\* far 10), with right > left and top > bottom.
C13_ProjectionValid ==
  /\ camera.projection = OrthographicLh(0, camera.width, 0, camera.height, -1, 10)
  /\ camera.projection.right > camera.projection.left
  /\ camera.projection.top > camera.projection.bottom


\* Where step x stands in the callback's log.
LogIndex(log, x) == CHOOSE i \in DOMAIN log : log[i] = x

Logged(log, x) == \E i \in DOMAIN log : log[i] = x

\* C14: a callback that copies a frame to the geometry buffers requests a
\* resize of them exactly when the frame's vertex or index count exceeds
\* their capacity, and requests it before the copy and before the submit;
\* no other callback requests one.
C14_GrowBeforeCopy ==
  [][/\ Logged(frame_log', "resize_geometry_buffers") => Logged(frame_log', "copy")
     /\ Logged(frame_log', "copy") =>
          /\ Logged(frame_log', "resize_geometry_buffers")
               <=> (\/ Len(frame_vertices') > max_geometry_vertices
                    \/ Len(frame_indices') > max_geometry_indices)
          /\ Logged(frame_log', "resize_geometry_buffers") =>
               LogIndex(frame_log', "resize_geometry_buffers") < LogIndex(frame_log', "copy")
          /\ Logged(frame_log', "submit") =>
               LogIndex(frame_log', "copy") < LogIndex(frame_log', "submit")]_vars

\* A frame that did not fit the geometry buffers was presented after they
\* were resized.
C14_GrownFramePresented ==
  /\ Logged(frame_log, "resize_geometry_buffers")
  /\ Logged(frame_log, "present")
  /\ Len(frame_indices) > InitialGeometryCapacity


\* The events the loop delivers: the quit signals and the others.
QuitEvents ==
  {[type |-> "CloseRequested"], [type |-> "Destroyed"],
   [type |-> "KeyPressed", key |-> "Escape"]}

OtherEvents ==
  {[type |-> "RedrawRequested"], [type |-> "RedrawEventsCleared"],
   [type |-> "MainEventsCleared"], [type |-> "LoopDestroyed"],
   [type |-> "KeyPressed", key |-> "A"], [type |-> "KeyReleased", key |-> "Escape"]}
    \cup {[type |-> "Resized", size |-> size] : size \in WindowSizes}

\* C15: process_event sets Exit and returns false exactly for CloseRequested,
\* Destroyed and a pressed Escape, and sets Poll and returns true for every
\* other event; the loop leaves its running state only in a callback that
\* set Exit, and that callback handles no resize and renders nothing.
C15_ExitOnlyOnQuitSignal ==
  [][/\ \A event \in QuitEvents \cup OtherEvents :
          LET pe == process_event(event, state_window_size, state_size_changed,
                                  state_render, control_flow)
          IN IF event \in QuitEvents
               THEN pe.control_flow = "Exit" /\ ~pe.returned
               ELSE pe.control_flow = "Poll" /\ pe.returned
     /\ (loop_pc = "running" /\ loop_pc' # "running") =>
          /\ loop_pc' = "exiting"
          /\ control_flow' = "Exit"
          /\ frame_log' = <<>>
          /\ UNCHANGED <<state_size_changed, state_window_size, device_size,
                         depth_texture_view, camera, frame_vertices, frame_indices,
                         n_presented, frame_count>>
     /\ (loop_pc = "running" /\ loop_pc' = "running") => control_flow' = "Poll"]_vars

\* The loop has exited on a quit signal after presenting a frame.
C15_ExitedAfterFrame ==
  /\ loop_pc = "exiting"
  /\ control_flow = "Exit"
  /\ n_presented >= 1
  /\ frame_log = <<>>


\* C16: on_update returns false in the very update in which quit or a
\* pressed Escape is observed and true in every update before any such
\* signal; in geometry_wars, once running is false a later on_update leaves
\* it false and returns false.
C16_QuitStopsTheGame ==
  [][game_updates' = game_updates + 1 =>
       /\ (game_last'.quit \/ game_last'.escape) =>
            (~game_last'.returned /\ ~game_last'.geometry_returned)
       /\ ~quit_seen' => (game_last'.returned /\ game_last'.geometry_returned)
       /\ ~game.running => (~game'.running /\ ~game_last'.returned)]_vars

\* An update after the quit signal, itself without a signal, returned false
\* in geometry_wars.
C16_StillStoppedLater ==
  /\ game_updates = MaxGameUpdates
  /\ quit_seen
  /\ ~game_last.quit /\ ~game_last.escape
  /\ ~game.running
  /\ ~game_last.returned

\* C18: for a camera of width w and height h and a mouse viewport position
\* (x, y), the world position on_update stores from mouse_in_world is
\* (x, h - y).
C18_MouseFlippedOnce ==
  [][(game_updates' = game_updates + 1 /\ game.player_alive /\ ~game'.paused) =>
       /\ game'.input.mouse_screen_position = game_last'.mouse
       /\ ~game'.input.mouse_world_position.is_nan
       /\ ClosePoint(game'.input.mouse_world_position.position,
                     <<game_last'.mouse[1] * ONE,
                       (game_last'.camera.height - game_last'.mouse[2]) * ONE>>)]_vars

\* The same with the cameras of no width or height left aside.
C18_MouseFlippedOnceSized ==
  [][(game_updates' = game_updates + 1 /\ game.player_alive /\ ~game'.paused
        /\ game_last'.camera.width > 0 /\ game_last'.camera.height > 0) =>
       /\ ~game'.input.mouse_world_position.is_nan
       /\ ClosePoint(game'.input.mouse_world_position.position,
                     <<game_last'.mouse[1] * ONE,
                       (game_last'.camera.height - game_last'.mouse[2]) * ONE>>)]_vars


\* The callback that has just run skipped its frame on a swapchain error.
FrameSkipped(log) == Logged(log, "swapchain error")

\* C17: a frame whose surface texture cannot be acquired is skipped: no
\* buffers are created, no pass is recorded, nothing is submitted or
\* presented, the frame counter keeps its value, the render flag is cleared
\* and the loop keeps running; the next RedrawRequested presents a frame.
C17_SwapchainErrorSkipsFrame ==
  /\ [](FrameSkipped(frame_log) =>
          /\ \A step \in {"create_buffers", "copy", "pass", "submit", "present", "panic"} :
               ~Logged(frame_log, step)
          /\ ~state_render
          /\ loop_pc = "running"
          /\ control_flow = "Poll"
          /\ LET next == Callback([type |-> "RedrawRequested"], TRUE, FALSE)
             IN /\ next.presented = n_presented + 1
                /\ next.frame_count = frame_count + 1
                /\ next.pc = "running"
                /\ Logged(next.log, "present"))
  /\ [][FrameSkipped(frame_log') =>
          /\ n_redraw_requested' = n_redraw_requested + 1
          /\ UNCHANGED <<n_presented, frame_count, max_geometry_vertices,
                         max_geometry_indices>>]_vars

\* The first frame was skipped on a swapchain error and the second presented.
C17_PresentedAfterSkippedFrame ==
  /\ n_redraw_requested = 2
  /\ n_presented = 1
  /\ frame_count = 1
  /\ Logged(frame_log, "present")
  /\ loop_pc = "running"


\* Rot(-rotation) * (scale * p - pivot) + translation.
RotatedAboutPivot(t, p) ==
  LET x == FMul(t.scale[1], p[1]) - t.origin[1]
      y == FMul(t.scale[2], p[2]) - t.origin[2]
      c == CosDeg(-t.rotation)
      s == SinDeg(-t.rotation)
  IN <<FMul(c, x) - FMul(s, y) + t.translation[1],
       FMul(s, x) + FMul(c, y) + t.translation[2]>>

\* C19: compute_transformation_matrix maps every local point p to
\* Rot(-rotation) * (scale * p - pivot) + translation, the composition of
\* translate by (translation - pivot), translate by pivot, rotate by
\* -rotation, translate by -pivot and scale, in that order.
C19_MatrixIsRotationAboutPivot ==
  xf_pc # "local" => ClosePoint(xf_world, RotatedAboutPivot(xf_transform, xf_point))

\* The corner (200, 0) of the rectangle of start() lies near (236.6, 63.4).
C19_StartRectCorner ==
  /\ xf_pc = "world"
  /\ xf_transform = StartRectTransform
  /\ xf_point = <<200 * ONE, 0>>
  /\ Abs(xf_world[1] - 236600) <= ONE
  /\ Abs(xf_world[2] - 63400) <= ONE


\* The cached vertices (indices) of the pairs before pair k, counted.
RECURSIVE CachedVerticesBefore(_, _)
CachedVerticesBefore(w, k) ==
  IF k <= 1 THEN 0
  ELSE CachedVerticesBefore(w, k - 1) + Len(w[k - 1].drawable.geometry.vertices)

RECURSIVE CachedIndicesBefore(_, _)
CachedIndicesBefore(w, k) ==
  IF k <= 1 THEN 0
  ELSE CachedIndicesBefore(w, k - 1) + Len(w[k - 1].drawable.geometry.indices)

\* Pair k's vertices and indices stand in the frame after those of the
\* pairs before it, each vertex with its cached color and its position
\* transformed by the pair's matrix.
PairInFrame(w, k, vertices, indices) ==
  \E t \in {compute_transformation_matrix(w[k].transform)} :
    \E first_vertex \in {CachedVerticesBefore(w, k)} :
      \E first_index \in {CachedIndicesBefore(w, k)} :
        LET geometry == w[k].drawable.geometry
        IN /\ \A j \in 1..Len(geometry.vertices) :
                /\ vertices[first_vertex + j].color = geometry.vertices[j].color
                /\ vertices[first_vertex + j].position
                     = TransformPoint(t, geometry.vertices[j].position)
           /\ \A j \in 1..Len(geometry.indices) :
                indices[first_index + j] = AsU16(first_vertex + geometry.indices[j])

\* C20: every assembled frame holds exactly the pairs' cached vertices and
\* indices, pair after pair in iteration order and nothing left from the
\* frame before: the counts are the sums of the cached counts, and each
\* vertex keeps its color and has its position transformed by its own
\* pair's matrix.
C20_FrameIsConcatenation ==
  n_redraw_requested > 0 =>
    /\ Len(frame_vertices) = CachedVerticesBefore(world, Len(world) + 1)
    /\ Len(frame_indices) = CachedIndicesBefore(world, Len(world) + 1)
    /\ \A k \in 1..Len(world) : PairInFrame(world, k, frame_vertices, frame_indices)

\* A second frame of two differently placed shapes has been presented.
C20_SecondFrameOfTwoShapes ==
  /\ n_presented = 2
  /\ Len(world) = 2
  /\ world[1].transform # world[2].transform
  /\ Len(world[1].drawable.geometry.vertices) > 0
  /\ Len(frame_vertices) > Len(world[1].drawable.geometry.vertices)


\* The frame assembled from the shape alone, untransformed.
FrameOfShape(s) ==
  AssembleFrame(<<[transform |-> TransformDefault, drawable |-> s]>>, 1, EmptyFrame)

\* C21: the geometry cache changes only in update(): a shape that was never
\* updated has an empty cache and contributes no vertex and no index to a
\* frame, an edit of a parameter leaves the cache as it was, and a frame
\* takes from the shape exactly what its cache holds.
C21_CacheChangesOnlyInUpdate ==
  /\ [](\E frame \in {FrameOfShape(shape)} :
          /\ shape_updates = 0 =>
               /\ shape.geometry = VertexBuffersNew
               /\ frame.vertices = <<>>
               /\ frame.indices = <<>>
          /\ Len(frame.vertices) = Len(shape.geometry.vertices)
          /\ Len(frame.indices) = Len(shape.geometry.indices))
  /\ [][shape'.geometry # shape.geometry => shape_updates' = shape_updates + 1]_vars

\* A parameter was edited after an update and the cache still holds the
\* geometry of the old parameters.
C21_StaleCacheAfterEdit ==
  /\ shape_last = "edit"
  /\ shape_updates >= 1
  /\ shape.geometry.vertices # <<>>
  /\ shape.geometry # FreshGeometry(shape)


\* cos and sin of 90 + 72 k degrees, k = 0..4, to three decimals.
PentagonDirections ==
  << <<0, 1000>>, <<-951, 309>>, <<-588, -809>>, <<588, -809>>, <<951, 309>> >>

\* One part in a hundred of a length r, and of its square.
WithinHundredth(a, b, r) == Abs(a - b) <= r \div 100 + 2

\* The boundary points lie on the circle of radius r about (r, r), the first
\* straight above the centre, each a turn of 360 / n degrees from the one
\* before (counter-clockwise).
EvenlySpacedFromTop(path, n, r) ==
  /\ path[1] = <<r, 2 * r>>
  /\ \A k \in 1..n :
       LET dx == path[k][1] - r
           dy == path[k][2] - r
           ex == path[1 + (k % n)][1] - r
           ey == path[1 + (k % n)][2] - r
       IN /\ WithinHundredth(FMul(dx, dx) + FMul(dy, dy), FMul(r, r), 2 * FMul(r, r))
          /\ WithinHundredth(FMul(dx, ex) + FMul(dy, ey),
                             FMul(FMul(r, r), CosDeg(360 \div n)), 2 * FMul(r, r))
          /\ r > 0 => FMul(dx, ey) - FMul(dy, ex) > 0

\* C22: a polygon with point_count n >= 3 and radius r hands the tessellator
\* a path of exactly n points on the circle of radius r about (r, r), the
\* k-th at 90 + k * 360 / n degrees; for n = 5 the directions are those of
\* 90 + 72 k degrees, the first pointing up.
C22_PolygonPointsEvenlySpaced ==
  (shape.kind = "Polygon" /\ shape.point_count >= 3) =>
    LET path == PolygonPath(shape.radius, shape.point_count)
    IN
      /\ shape.point_count <= 360 => DOMAIN path = 1..shape.point_count
      /\ path[1] = <<shape.radius, 2 * shape.radius>>
      /\ 360 % shape.point_count = 0 =>
           EvenlySpacedFromTop(path, shape.point_count, shape.radius)
      /\ shape.point_count = 5 =>
           \A k \in 1..5 :
             /\ WithinHundredth(path[k][1] - shape.radius,
                                FMul(shape.radius, PentagonDirections[k][1]), shape.radius)
             /\ WithinHundredth(path[k][2] - shape.radius,
                                FMul(shape.radius, PentagonDirections[k][2]), shape.radius)

\* A pentagon of non-zero radius has been tessellated.
C22_PentagonUpdated ==
  /\ shape.kind = "Polygon"
  /\ shape.point_count = 5
  /\ shape.radius = MaxCoord * ONE
  /\ shape_last = "update"
  /\ shape.geometry.vertices # <<>>


\* C23: when the world's vertices number at most 65535 in all, the frame is
\* assembled and every index in it is below the frame's vertex count and
\* names a vertex that the index's own pair contributed.
C23_IndicesNameOwnVertices ==
  (cap_result # "pending"
     /\ VerticesBefore(cap_world, Len(cap_world) + 1) <= U16Max) =>
    /\ cap_result = "frame"
    /\ cap_vertices_len = VerticesBefore(cap_world, Len(cap_world) + 1)
    /\ \A j \in DOMAIN cap_indices :
         LET first == VerticesBefore(cap_world, cap_indices[j].pair)
         IN /\ cap_indices[j].written < cap_vertices_len
            /\ first <= cap_indices[j].written
            /\ cap_indices[j].written < first + cap_world[cap_indices[j].pair].n_vertices

\* A frame of two large meshes that together stay within 65535 vertices.
C23_LargeFrameWithinLimit ==
  /\ cap_result = "frame"
  /\ Len(cap_world) = 2
  /\ cap_vertices_len = U16Modulus \div 2 + 30000
  /\ \E j \in DOMAIN cap_indices :
       cap_indices[j].pair = 2 /\ cap_indices[j].written = cap_vertices_len - 1


\* C24: whenever a render pass is begun the depth texture view exists and no
\* resize is pending, so the unwrap of the view never panics; a Resized
\* event's new size is handled by the resize block of the same callback.
C24_DepthViewBeforeRenderPass ==
  /\ [](/\ loop_pc # "panicked"
        /\ ~Logged(frame_log, "panic")
        /\ Logged(frame_log, "pass") => (depth_texture_view /\ ~state_size_changed)
        /\ n_redraw_requested > 0 => depth_texture_view)
  /\ [][state_window_size' # state_window_size =>
          (Logged(frame_log', "resize") /\ depth_texture_view'
             /\ ~state_size_changed')]_vars

\* The very first event was RedrawRequested: the pending initial resize ran
\* in the same callback, before the render pass.
C24_FirstCallbackRenders ==
  /\ n_redraw_requested = 1
  /\ n_presented = 1
  /\ Logged(frame_log, "pass")
  /\ frame_log[1] = "resize"
  /\ depth_texture_view


\* C25: after the loop has processed a Resized event, of whatever size, the
\* camera's viewport width and height are the width and height the graphics
\* device's surface is configured with.
C25_CameraMatchesSurface ==
  [][state_window_size' # state_window_size =>
       (camera'.width = device_size'[1] /\ camera'.height = device_size'[2])]_vars


\* C26: in a scene the n-th draw_shape call (n from 0) writes the stroke
\* primitive at slot 2n and the fill primitive at slot 2n + 1 and nothing
\* else, and adds one to the instance count; no call writes outside the 256
\* slots; 127 shapes are accepted and the 128th call fails its assertion
\* without writing.
C26_TwoSlotsPerShape ==
  /\ [](/\ DOMAIN scene_primitives = 0..(GEOMETRY_PRIMITIVES_BUFFER_LEN - 1)
        /\ geometry_rect_instances <= 127
        /\ scene_pc \in {"open", "assertion failed"}
        /\ scene_pc = "assertion failed" => geometry_rect_instances = 127
        /\ \A slot \in DOMAIN scene_primitives :
             scene_primitives[slot] =
               IF slot >= 2 * geometry_rect_instances THEN "default"
               ELSE IF slot % 2 = 0 THEN "stroke" ELSE "fill")
  /\ [][/\ geometry_rect_instances' > geometry_rect_instances =>
             /\ geometry_rect_instances' = geometry_rect_instances + 1
             /\ \A slot \in DOMAIN scene_primitives :
                  scene_primitives'[slot] # scene_primitives[slot] =>
                    slot \in {2 * geometry_rect_instances,
                              2 * geometry_rect_instances + 1}
        /\ scene_pc' # scene_pc =>
             /\ geometry_rect_instances = 127
             /\ UNCHANGED <<scene_primitives, geometry_rect_instances>>]_vars

\* The 128th call of a scene has failed its assertion: slots 252 and 253
\* hold the 127th shape and the last two slots were never written.
C26_Call128Refused ==
  /\ scene_pc = "assertion failed"
  /\ geometry_rect_instances = 127
  /\ scene_primitives[252] = "stroke"
  /\ scene_primitives[253] = "fill"
  /\ scene_primitives[254] = "default"
  /\ scene_primitives[255] = "default"

NoDeadEntity ==
  \A e \in wars.entities :
    /\ IsSome(e.lifespan) => e.lifespan[1] # 0
    /\ IsSome(e.health) => e.health[1] # 0

LifespanNeverGrows ==
  \A e \in wars.entities : \A after \in wars'.entities :
    (after.id = e.id /\ IsSome(e.lifespan))
      => /\ IsSome(after.lifespan)
         /\ after.lifespan[1] <= e.lifespan[1]
         /\ after.lifespan[1] >= 0

\* C27: when an on_update call has ended, paused or not, no entity of the
\* world has a Lifespan whose remaining time is zero or a Health of zero, and
\* from one call to the next an entity's remaining time never grows and never
\* goes below zero.
C27_NoDeadEntityAfterUpdate == []NoDeadEntity /\ [][LifespanNeverGrows]_vars

\* An update has despawned a dead entity and has left alive an entity whose
\* remaining time it has shortened.
C27_DeadRemovedAgedKept ==
  /\ wars.events.removed # {}
  /\ wars.events.colliding # {}
  /\ \E e \in wars.entities :
       /\ IsSome(e.lifespan)
       /\ e.id \notin wars.events.spawned
       /\ 0 < e.lifespan[1] /\ e.lifespan[1] < BulletConfig.lifespan

Players(w) == {e \in w.entities : IsSome(e.input)}

AtMostOnePlayer == Cardinality(Players(wars)) <= 1

PlayerSpawnedOnlyWhenNone ==
  \A e \in Players(wars') :
    e.id \notin {before.id : before \in wars.entities}
      => /\ ~wars'.paused
         /\ Players(wars) = {}
         /\ wars'.events.player_spawned

\* C28: after any sequence of on_update calls the world holds at most one
\* entity with an Input component, and a player appears only in an update
\* that runs unpaused and starts with no player alive.
C28_AtMostOnePlayer == []AtMostOnePlayer /\ [][PlayerSpawnedOnlyWhenNone]_vars

\* A second player has been spawned after the first one collided with an
\* enemy and was despawned.
C28_PlayerSpawnedAgain ==
  /\ wars.events.player_spawned
  /\ \E e \in Players(wars) : e.id > 1

SmallEnemies(w) == {e \in w.entities : e.tag = "small_enemy"}

\* The small enemies the running update has built from an enemy.
SmallEnemiesOf(parent) ==
  {e \in SmallEnemies(wars) : e.parent = parent.id /\ e.id \in wars.events.spawned}

HitEnemySpawnsPointCount ==
  \A parent \in wars.events.enemies_hit :
    /\ Cardinality(SmallEnemiesOf(parent)) = parent.point_count
    /\ parent.id \in wars.events.removed
    /\ parent.id \notin {e.id : e \in wars.entities}

SmallEnemyCarriesLifespanOnly ==
  \A e \in SmallEnemies(wars) :
    /\ e.health = None
    /\ IsSome(e.lifespan) /\ e.lifespan[1] > 0
    /\ e.point_count \in EnemyConfig.min_vertices..EnemyConfig.max_vertices

SmallEnemiesOnlyFromEnemiesHit ==
  \A e \in SmallEnemies(wars') :
    e.id \notin {before.id : before \in wars.entities}
      => /\ e.id \in wars'.events.spawned
         /\ \E parent \in wars'.events.enemies_hit :
              /\ parent.id = e.parent
              /\ parent.tag = "enemy"
              /\ parent.id \in wars'.events.colliding

C29_SmallEnemyHit ==
  /\ wars.events.colliding # {}
  /\ wars.events.enemies_hit = {}
  /\ wars.events.spawned \subseteq {e.id : e \in Players(wars)}

\* The step is an on_update call whose systems see self.paused set.
PausedUpdate == wars_updates' = wars_updates + 1 /\ wars'.paused

OnlyRotationAdvances ==
  /\ {e.id : e \in wars'.entities} = {e.id : e \in wars.entities}
  /\ \A e \in wars.entities : \E after \in wars'.entities :
       /\ after.id = e.id
       /\ after = [e EXCEPT !.rotation = @ + 60 * wars_last'.dt]

PausedUpdateFreezesGame ==
  PausedUpdate =>
    /\ wars'.running_time = wars.running_time
    /\ wars'.score = wars.score
    /\ wars'.last_enemy_spawn_time = wars.last_enemy_spawn_time
    /\ wars'.last_special_weapon_spawn_time = wars.last_special_weapon_spawn_time
    /\ OnlyRotationAdvances
    /\ wars'.events = NoEvents

====
